---- MODULE Spec2Model ----
(***************************************************************************)
(* Model of the setup-claude-code action: the run() entry point            *)
(* (src/src/main.ts), the cache coordinator (cache.ts, the second half of  *)
(* src/src/main.ts), the installer and the utilities                       *)
(* (src/unnamed/part_001).                                                 *)
(*                                                                         *)
(* Strings are TLA+ strings built with \o, so that keys and URLs are the   *)
(* very strings the code builds and prefix matching is string prefix       *)
(* matching.  One action is one step of run() between two awaits; the      *)
(* environment (the clock, the remote stable pointer) may move between any *)
(* two steps.  Several runs follow one another and share the external      *)
(* cache only.                                                             *)
(***************************************************************************)
EXTENDS Integers, Sequences, FiniteSets, TLC

VARIABLES
    now,            \* the clock: hours since 2025-12-30T00:00Z
    pointer,        \* index of the version the remote stable pointer names
    cacheStore,     \* external cache: sequence of saved entries, oldest first
    host,           \* the runner: [os, arch, musl]
    runs,           \* number of runs started so far
    pc,             \* position of run() in the current run
    version,        \* the 'version' input of the current run
    cacheHit,       \* result of restoreCache in this run
    restoreReq,     \* what restoreCache handed to cache.restoreCache
    saveReq,        \* what saveCache handed to cache.saveCache
    matchedKey,     \* key the external cache reported on restore ("" if none)
    platform,       \* result of getPlatform in installClaudeCode
    stableVersion,  \* result of fetchStableVersion in installClaudeCode
    expectedChecksum, \* result of getChecksum
    actualChecksum, \* result of calculateSHA256
    manifestServed, \* kind of the manifest document served to getChecksum
    stableServed,   \* content served for the stable pointer (UNDEFINED if none)
    download,       \* the downloaded binary file: [exists, mode, bytes, from]
    installDir,     \* content of the install directories on the runner
    calls,          \* external effects of this run, in order
    warnings,       \* core.warning messages of this run
    outputs,        \* core.setOutput calls of this run, in order
    infos,          \* milestone core.info messages of this run, in order
    failed,         \* core.setFailed messages of this run, in order
    pluginInput,    \* the argument of installPlugins: the 'plugins' input
    pluginList,     \* installPlugins: the parsed list of plugin names
    installed,      \* installPlugins: the names installed so far, in order
    githubToken,    \* the 'github_token' input
    marketplacesInput, \* the 'marketplaces' input
    marketplaces,   \* addOrUpdateMarketplaces: the parsed list of sources
    addedOrUpdated, \* addOrUpdateMarketplaces: the sources processed so far
    existing        \* addOrUpdateMarketplace: the name isMarketplaceInstalled
                    \* found for the current source ("" for null)

vars == << now, pointer, cacheStore, host, runs, pc, version, cacheHit,
           restoreReq, saveReq, matchedKey, platform, stableVersion,
           expectedChecksum, actualChecksum, manifestServed, stableServed,
           download, installDir, calls,
           warnings, outputs, infos, failed,
           pluginInput, pluginList, installed,
           githubToken, marketplacesInput, marketplaces, addedOrUpdated,
           existing >>

marketVars == << githubToken, marketplacesInput, marketplaces, addedOrUpdated,
                 existing >>

pluginVars == << pluginInput, pluginList, installed, marketVars >>

envVars == << now, pointer, cacheStore, host, runs >>

-----------------------------------------------------------------------------
(* Bounds *)

\* runs in one behaviour
MaxRuns == 2

\* times the clock advances in one behaviour
MaxTicks == 2

\* values the remote stable pointer takes, in order
MaxPointer == 2

\* runs in one behaviour when a single run is followed from start to end
MaxSoloRuns == 1

\* names in the 'plugins' input handed to installPlugins
MaxPlugins == 3

\* calls of the key functions in one process
MaxKeyCalls == 2

\* times the clock advances while the key functions are called
MaxKeyTicks == 4

-----------------------------------------------------------------------------
(* Strings *)

IsPrefix(p, s) == Len(p) <= Len(s) /\ SubSeq(s, 1, Len(p)) = p

DigitChar(d) == SubSeq("0123456789", d + 1, d + 1)

RECURSIVE IntToStr(_)
IntToStr(n) == IF n < 10 THEN DigitChar(n)
               ELSE IntToStr(n \div 10) \o DigitChar(n % 10)

\* padStart(width, '0') as toISOString applies it to year, month and day
RECURSIVE PadZero(_, _)
PadZero(s, width) == IF Len(s) >= width THEN s ELSE PadZero("0" \o s, width)

\* sub occurs in s
Contains(s, sub) ==
    \E k \in 1..(Len(s) - Len(sub) + 1) : SubSeq(s, k, k + Len(sub) - 1) = sub

\* U+000B, which has no escape in a string of this notation: the character
\* itself stands between the quotes
VerticalTab == ""

\* the white space and line terminators String.prototype.trim removes (and \s
\* matches) below U+0080; U+00A0, U+FEFF, U+2028, U+2029 and the other space
\* separators cannot stand in a string of this notation
WhiteSpace == {" ", "\n", "\t", "\r", "\f", VerticalTab}

RECURSIVE TrimStart(_)
TrimStart(s) == IF s # "" /\ Head(s) \in WhiteSpace THEN TrimStart(Tail(s)) ELSE s

RECURSIVE TrimEnd(_)
TrimEnd(s) == IF s # "" /\ SubSeq(s, Len(s), Len(s)) \in WhiteSpace
              THEN TrimEnd(SubSeq(s, 1, Len(s) - 1)) ELSE s

\* String.prototype.trim
Trim(s) == TrimEnd(TrimStart(s))

-----------------------------------------------------------------------------
(* utils.ts *)

HoursPerDay == 24
HoursPerTick == 12

IsLeap(y) == (y % 4 = 0 /\ y % 100 # 0) \/ y % 400 = 0

DaysInMonth(y, m) == IF m = 2 THEN (IF IsLeap(y) THEN 29 ELSE 28)
                     ELSE IF m \in {4, 6, 9, 11} THEN 30 ELSE 31

BaseDate == [y |-> 2025, m |-> 12, d |-> 30]

NextDate(c) == IF c.d < DaysInMonth(c.y, c.m) THEN [c EXCEPT !.d = c.d + 1]
               ELSE IF c.m < 12 THEN [c EXCEPT !.m = c.m + 1, !.d = 1]
               ELSE [y |-> c.y + 1, m |-> 1, d |-> 1]

\* the UTC calendar date of the instant t (hours since the base instant)
RECURSIVE CivilDate(_)
CivilDate(days) == IF days = 0 THEN BaseDate ELSE NextDate(CivilDate(days - 1))

\* getCurrentDate reading the calendar date of a time zone twelve hours ahead
getCurrentDate_LocalTime(t) ==
    LET c == CivilDate((t + 12) \div HoursPerDay)
    IN PadZero(IntToStr(c.y), 4) \o "-" \o PadZero(IntToStr(c.m), 2)
         \o "-" \o PadZero(IntToStr(c.d), 2)

\* Date.prototype.toISOString().split('T')[0]
getCurrentDate(t) ==
    LET c == CivilDate(t \div HoursPerDay)
    IN PadZero(IntToStr(c.y), 4) \o "-" \o PadZero(IntToStr(c.m), 2)
         \o "-" \o PadZero(IntToStr(c.d), 2)

Hosts == { [os |-> "linux",  arch |-> "x64",   musl |-> FALSE],
           [os |-> "linux",  arch |-> "arm64", musl |-> TRUE],
           [os |-> "darwin", arch |-> "arm64", musl |-> TRUE],
           [os |-> "win32",  arch |-> "x64",   musl |-> FALSE],
           [os |-> "linux",  arch |-> "ia32",  musl |-> FALSE] }

\* the runners the runs of one behaviour may be on
RunnerHosts == { h \in Hosts : ~h.musl }

NoPlatform == [os |-> "", arch |-> "", platform |-> ""]

\* getPlatform appending the musl suffix on every operating system
getPlatform_MuslAnywhere(h) ==
    IF h.os = "win32" THEN [err |-> "Windows is not supported", value |-> NoPlatform]
    ELSE IF h.os \notin {"darwin", "linux"}
    THEN [err |-> "Unsupported OS: " \o h.os, value |-> NoPlatform]
    ELSE IF h.arch \notin {"x64", "arm64"}
    THEN [err |-> "Unsupported architecture: " \o h.arch, value |-> NoPlatform]
    ELSE LET base == h.os \o "-" \o h.arch
         IN [err |-> "",
             value |-> [os |-> h.os, arch |-> h.arch,
                        platform |-> IF h.musl THEN base \o "-musl" ELSE base]]

\* getPlatform: [err, value]
getPlatform(h) ==
    IF h.os = "win32" THEN [err |-> "Windows is not supported", value |-> NoPlatform]
    ELSE IF h.os \notin {"darwin", "linux"}
    THEN [err |-> "Unsupported OS: " \o h.os, value |-> NoPlatform]
    ELSE IF h.arch \notin {"x64", "arm64"}
    THEN [err |-> "Unsupported architecture: " \o h.arch, value |-> NoPlatform]
    ELSE LET base == h.os \o "-" \o h.arch
         IN [err |-> "",
             value |-> [os |-> h.os, arch |-> h.arch,
                        platform |-> IF h.os = "linux" /\ h.musl
                                     THEN base \o "-musl" ELSE base]]

HomeDir == "/home/runner"

getClaudePaths ==
    [bin |-> HomeDir \o "/.local/bin",
     data |-> HomeDir \o "/.local/share/claude",
     executable |-> HomeDir \o "/.local/bin/claude"]

-----------------------------------------------------------------------------
(* cache.ts *)

\* getCacheKey appending the date to the key of every token
getCacheKey_AlwaysDated(v, osPlatform, t) ==
    "claude-code-" \o osPlatform \o "-" \o v \o "-" \o getCurrentDate(t)

\* getCacheKey leaving the date out of the key of 'latest'
getCacheKey_NeverDated(v, osPlatform, t) ==
    "claude-code-" \o osPlatform \o "-" \o v

getCacheKey(v, osPlatform, t) ==
    IF v = "latest"
    THEN "claude-code-" \o osPlatform \o "-latest-" \o getCurrentDate(t)
    ELSE "claude-code-" \o osPlatform \o "-" \o v

\* getRestoreKeys listing the platform-wide prefix first
getRestoreKeys_Reversed(v, osPlatform) ==
    << "claude-code-" \o osPlatform \o "-",
       "claude-code-" \o osPlatform \o "-" \o v \o "-" >>

getRestoreKeys(v, osPlatform) ==
    << "claude-code-" \o osPlatform \o "-" \o v \o "-",
       "claude-code-" \o osPlatform \o "-" >>

\* getCachePaths listing the bin directory only
getCachePaths_BinOnly == << getClaudePaths.bin >>

getCachePaths == << getClaudePaths.bin, getClaudePaths.data >>

-----------------------------------------------------------------------------
(* installer.ts *)

GCS_BUCKET == "https://storage.googleapis.com/claude-code-dist-86c565f3-f756-42ad-8dfa-d59b1c096819/claude-code-releases"

\* the versions the remote stable pointer names, in release order
StableVersionAt(i) == "2.0." \o IntToStr(26 + i)

\* a JS value that is not there
UNDEFINED == "<undefined>"

Falsy(x) == x = UNDEFINED \/ x = ""

GenuineBinary == "#!claude-genuine"
TamperedBinary == "#!claude-tampered"

\* crypto.createHash('sha256') ... digest('hex'), on the byte strings used here
SHA256(bytes) ==
    CASE bytes = GenuineBinary ->
           "79d2561b5f1a166238f0acfb4655d61366caedcc6234dacea404795b6839e42a"
      [] bytes = TamperedBinary ->
           "b91c2e9e68f3a43da2fb22a3bb435429fe96affa45181f5595d7ebae2744eb05"
      [] bytes = "" ->
           "e3b0c44298fc1c149afbf4c8996fb92427ae41e4649b934ca495991b7852b855"

HexLower == {"0", "1", "2", "3", "4", "5", "6", "7", "8", "9",
             "a", "b", "c", "d", "e", "f"}

\* the checksum pattern matched without regard to case: /^[a-f0-9]{64}$/i
IsChecksumFormat_AnyCase(s) ==
    /\ Len(s) = 64
    /\ \A i \in 1..Len(s) : SubSeq(s, i, i) \in HexLower \cup {"A", "B", "C", "D", "E", "F"}

\* /^[a-f0-9]{64}$/.test(checksum)
IsChecksumFormat(s) ==
    /\ Len(s) = 64
    /\ \A i \in 1..Len(s) : SubSeq(s, i, i) \in HexLower

AllPlatformIds == {"linux-x64", "linux-x64-musl", "linux-arm64",
                   "linux-arm64-musl", "darwin-x64", "darwin-arm64"}

GoodChecksum == SHA256(GenuineBinary)

\* GoodChecksum with the lowest bit of its first hex digit flipped (7 -> 6)
FlippedChecksum == "6" \o Tail(GoodChecksum)

UpperChecksum == "79D2561B5F1A166238F0ACFB4655D61366CAEDCC6234DACEA404795B6839E42A"

ManifestKinds == {"good", "alt", "flipped", "upper", "short", "long",
                  "emptyChecksum", "noChecksum", "otherPlatform", "noPlatforms"}

\* the manifest documents the remote endpoint may serve; 'defined' tells
\* whether the JSON document has the 'platforms' member at all
ManifestOf(kind) ==
    LET all(c) == [defined |-> TRUE,
                   platforms |-> [p \in AllPlatformIds |-> [checksum |-> c]]]
    IN CASE kind = "good" -> all(GoodChecksum)
         [] kind = "alt" -> all(SHA256(TamperedBinary))
         [] kind = "flipped" -> all(FlippedChecksum)
         [] kind = "upper" -> all(UpperChecksum)
         [] kind = "short" -> all(SubSeq(GoodChecksum, 1, 63))
         [] kind = "long" -> all(GoodChecksum \o "0")
         [] kind = "emptyChecksum" -> all("")
         [] kind = "noChecksum" -> all(UNDEFINED)
         [] kind = "otherPlatform" ->
              [defined |-> TRUE,
               platforms |-> [p \in {"darwin-x64"} |-> [checksum |-> GoodChecksum]]]
         [] kind = "noPlatforms" ->
              [defined |-> FALSE,
               platforms |-> [p \in {} |-> [checksum |-> UNDEFINED]]]

NetworkError == "Unexpected HTTP response: 503"

\* fetchStableVersion reading the file without trimming it
fetchStableVersion_NoTrim(resp) ==
    IF resp.err # "" THEN [err |-> resp.err, value |-> ""]
    ELSE LET content == resp.body
         IN IF content = ""
            THEN [err |-> "Failed to fetch stable version", value |-> ""]
            ELSE [err |-> "", value |-> content]

\* fetchStableVersion after tc.downloadTool answered resp = [err, body]
fetchStableVersion(resp) ==
    IF resp.err # "" THEN [err |-> resp.err, value |-> ""]
    ELSE LET content == Trim(resp.body)
         IN IF content = ""
            THEN [err |-> "Failed to fetch stable version", value |-> ""]
            ELSE [err |-> "", value |-> content]

\* manifest.platforms?.[platform]: [defined, checksum]
PlatformData(manifest, p) ==
    IF manifest.defined /\ p \in DOMAIN manifest.platforms
    THEN [defined |-> TRUE, checksum |-> manifest.platforms[p].checksum]
    ELSE [defined |-> FALSE, checksum |-> UNDEFINED]

\* getChecksum without the test for a missing platform entry: it hands back
\* an empty checksum
getChecksum_NoEntryTest(resp, p) ==
    IF resp.err # "" THEN [err |-> resp.err, value |-> ""]
    ELSE LET platformData == PlatformData(ManifestOf(resp.kind), p)
         IN IF ~platformData.defined \/ Falsy(platformData.checksum)
            THEN [err |-> "", value |-> ""]
            ELSE IF ~IsChecksumFormat(platformData.checksum)
            THEN [err |-> "Invalid checksum format: " \o platformData.checksum,
                  value |-> ""]
            ELSE [err |-> "", value |-> platformData.checksum]

\* getChecksum after tc.downloadTool answered resp = [err, kind]
getChecksum(resp, p) ==
    IF resp.err # "" THEN [err |-> resp.err, value |-> ""]
    ELSE LET platformData == PlatformData(ManifestOf(resp.kind), p)
         IN IF ~platformData.defined \/ Falsy(platformData.checksum)
            THEN [err |-> "Platform " \o p \o " not found in manifest", value |-> ""]
            ELSE IF ~IsChecksumFormat(platformData.checksum)
            THEN [err |-> "Invalid checksum format: " \o platformData.checksum,
                  value |-> ""]
            ELSE [err |-> "", value |-> platformData.checksum]

StablePointerUrl == GCS_BUCKET \o "/stable"

ManifestUrl(v) == GCS_BUCKET \o "/" \o v \o "/manifest.json"

BinaryUrl(v, p) == GCS_BUCKET \o "/" \o v \o "/" \o p \o "/claude"

\* the download: 'exists' tells whether the file is on disk; bytes, mode and
\* from (the version in its URL) stay as they were when it was last there
NoFile == [exists |-> FALSE, mode |-> "", bytes |-> "", from |-> ""]

\* fs.unlinkSync
unlinkSync(file) == [file EXCEPT !.exists = FALSE]

\* verifyDownload comparing the lengths of the digests instead of the digests
verifyDownload_LengthOnly(file, actual, expected) ==
    IF Len(actual) # Len(expected)
    THEN [err |-> "Checksum verification failed. Expected: " \o expected
                    \o ", Got: " \o actual,
          file |-> unlinkSync(file)]
    ELSE [err |-> "", file |-> [file EXCEPT !.mode = "0755"]]

\* verifyDownload throwing on a mismatch without deleting the download
verifyDownload_NoUnlink(file, actual, expected) ==
    IF actual # expected
    THEN [err |-> "Checksum verification failed. Expected: " \o expected
                    \o ", Got: " \o actual,
          file |-> file]
    ELSE [err |-> "", file |-> [file EXCEPT !.mode = "0755"]]

\* verifyDownload returning the verified file without making it executable
verifyDownload_NoChmod(file, actual, expected) ==
    IF actual # expected
    THEN [err |-> "Checksum verification failed. Expected: " \o expected
                    \o ", Got: " \o actual,
          file |-> unlinkSync(file)]
    ELSE [err |-> "", file |-> file]

\* downloadAndVerifyBinary from 'Verify checksum' on: the file afterwards and
\* the error thrown, if any
verifyDownload(file, actual, expected) ==
    IF actual # expected
    THEN [err |-> "Checksum verification failed. Expected: " \o expected
                    \o ", Got: " \o actual,
          file |-> unlinkSync(file)]
    ELSE [err |-> "", file |-> [file EXCEPT !.mode = "0755"]]

\* installClaudeCode downloading the requested version when it is a literal
downloadVersion_Requested(token, stable) ==
    IF token \in {"latest", "stable"} THEN stable ELSE token

\* installClaudeCode: the version handed to downloadAndVerifyBinary
\* ('Always download stable version')
downloadVersion(token, stable) == stable

\* runInstaller pushing the target onto the argument list without testing it
installerArgs_AlwaysTarget(target) == << "install", target >>

\* runInstaller: the argument list of the subprocess
installerArgs(target) == IF Falsy(target) THEN << "install" >>
                         ELSE << "install", target >>

-----------------------------------------------------------------------------
(* The external cache service (@actions/cache) *)

\* index of the newest stored entry whose key starts with prefix (0 if none)
NewestWithPrefix(store, prefix) ==
    LET hits == {i \in 1..Len(store) : IsPrefix(prefix, store[i].key)}
    IN IF hits = {} THEN 0 ELSE CHOOSE i \in hits : \A j \in hits : j <= i

\* index of the stored entry with exactly this key (0 if none)
ExactMatch(store, key) ==
    LET hits == {i \in 1..Len(store) : store[i].key = key}
    IN IF hits = {} THEN 0 ELSE CHOOSE i \in hits : \A j \in hits : j <= i

\* the primary key first, then the fallback prefixes in order
RECURSIVE FirstPrefixMatch(_, _, _)
FirstPrefixMatch(store, prefixes, k) ==
    IF k > Len(prefixes) THEN 0
    ELSE IF NewestWithPrefix(store, prefixes[k]) # 0
    THEN NewestWithPrefix(store, prefixes[k])
    ELSE FirstPrefixMatch(store, prefixes, k + 1)

CacheLookup(store, primaryKey, restoreKeys) ==
    IF ExactMatch(store, primaryKey) # 0 THEN ExactMatch(store, primaryKey)
    ELSE FirstPrefixMatch(store, restoreKeys, 1)

\* keys are immutable in the service: saving an existing key changes nothing
CacheStoreAfterSave(store, entry) ==
    IF ExactMatch(store, entry.key) # 0 THEN store ELSE Append(store, entry)

CacheError == "Cache service responded with 503"

-----------------------------------------------------------------------------
(* cache.ts: restoreCache and saveCache around the external calls *)

\* restoreCache without its catch block
restoreCache_Rethrows(ext) ==
    IF ext.err # ""
    THEN [threw |-> ext.err, value |-> FALSE, warning |-> ""]
    ELSE IF ~Falsy(ext.key)
    THEN [threw |-> "", value |-> TRUE, warning |-> ""]
    ELSE [threw |-> "", value |-> FALSE, warning |-> ""]

\* restoreCache falling through to 'return false' after a key was matched
restoreCache_NoReturnTrue(ext) ==
    IF ext.err # ""
    THEN [threw |-> "", value |-> FALSE,
          warning |-> "Failed to restore cache: Error: " \o ext.err]
    ELSE [threw |-> "", value |-> FALSE, warning |-> ""]

\* restoreCache, given what cache.restoreCache did: ext = [err, key]
restoreCache(ext) ==
    IF ext.err # ""
    THEN [threw |-> "", value |-> FALSE,
          warning |-> "Failed to restore cache: Error: " \o ext.err]
    ELSE IF ~Falsy(ext.key)
    THEN [threw |-> "", value |-> TRUE, warning |-> ""]
    ELSE [threw |-> "", value |-> FALSE, warning |-> ""]

\* what restoreCache hands to cache.restoreCache
restoreCacheRequest(v, osPlatform, t) ==
    [paths |-> getCachePaths, primaryKey |-> getCacheKey(v, osPlatform, t),
     restoreKeys |-> getRestoreKeys(v, osPlatform)]

\* saveCacheRequest saving under the first fallback key
saveCacheRequest_FallbackKey(v, osPlatform, t) ==
    [paths |-> getCachePaths, key |-> getRestoreKeys(v, osPlatform)[1]]

\* what saveCache hands to cache.saveCache
saveCacheRequest(v, osPlatform, t) ==
    [paths |-> getCachePaths, key |-> getCacheKey(v, osPlatform, t)]

\* saveCache without its catch block
saveCache_Rethrows(ext) ==
    IF ext.err # ""
    THEN [threw |-> ext.err, warning |-> ""]
    ELSE [threw |-> "", warning |-> ""]

\* saveCache, given what cache.saveCache did: ext = [err]
saveCache(ext) ==
    IF ext.err # ""
    THEN [threw |-> "", warning |-> "Failed to save cache: Error: " \o ext.err]
    ELSE [threw |-> "", warning |-> ""]

-----------------------------------------------------------------------------
(* plugins.ts (src/unnamed/part_002): validation and parsing *)

MAX_PLUGIN_NAME_LENGTH == 512

LowerCase == {"a", "b", "c", "d", "e", "f", "g", "h", "i", "j", "k", "l", "m",
              "n", "o", "p", "q", "r", "s", "t", "u", "v", "w", "x", "y", "z"}

UpperCase == {"A", "B", "C", "D", "E", "F", "G", "H", "I", "J", "K", "L", "M",
              "N", "O", "P", "Q", "R", "S", "T", "U", "V", "W", "X", "Y", "Z"}

Digits == {"0", "1", "2", "3", "4", "5", "6", "7", "8", "9"}

\* the characters a regular expression's \w matches
WordChars == LowerCase \cup UpperCase \cup Digits \cup {"_"}

\* /^[@\w.\-/]+$/.test(s)
PLUGIN_NAME_PATTERN(s) ==
    /\ Len(s) >= 1
    /\ \A k \in 1..Len(s) : SubSeq(s, k, k) \in WordChars \cup {"@", ".", "-", "/"}

\* String.prototype.normalize('NFC'): the names handed in are ASCII, which
\* is in normal form already
normalizeNFC(s) == s

\* validatePluginName without the path traversal test
validatePluginName_NoTraversalTest(pluginName) ==
    LET normalized == normalizeNFC(pluginName)
        head == "Invalid plugin name \"" \o pluginName \o "\": "
    IN IF Len(normalized) > MAX_PLUGIN_NAME_LENGTH
       THEN head \o "exceeds maximum length of " \o IntToStr(MAX_PLUGIN_NAME_LENGTH)
              \o " characters"
       ELSE IF ~PLUGIN_NAME_PATTERN(normalized)
       THEN head \o "contains disallowed characters. Only alphanumeric, @, -, _, /, and . are allowed"
       ELSE ""

\* validatePluginName: the message of the error thrown ("" if none)
validatePluginName(pluginName) ==
    LET normalized == normalizeNFC(pluginName)
        head == "Invalid plugin name \"" \o pluginName \o "\": "
    IN IF Contains(normalized, "../") \/ Contains(normalized, "..\\")
       THEN head \o "path traversal detected"
       ELSE IF Len(normalized) > MAX_PLUGIN_NAME_LENGTH
       THEN head \o "exceeds maximum length of " \o IntToStr(MAX_PLUGIN_NAME_LENGTH)
              \o " characters"
       ELSE IF ~PLUGIN_NAME_PATTERN(normalized)
       THEN head \o "contains disallowed characters. Only alphanumeric, @, -, _, /, and . are allowed"
       ELSE ""

\* String.prototype.split on a class of one-character separators: the pieces
\* between the separators, empty ones included
RECURSIVE SplitAt(_, _)
SplitAt(s, separators) ==
    LET seps == {k \in 1..Len(s) : SubSeq(s, k, k) \in separators}
    IN IF seps = {} THEN << s >>
       ELSE LET first == CHOOSE k \in seps : \A j \in seps : k <= j
            IN << SubSeq(s, 1, first - 1) >>
                 \o SplitAt(SubSeq(s, first + 1, Len(s)), separators)

\* input.split(/[\n,]/)
SplitList(s) == SplitAt(s, {"\n", ","})

NonEmpty(item) == Len(item) > 0

\* parseList: split, trim every item, drop the empty ones
parseList(input) ==
    LET pieces == SplitList(input)
    IN SelectSeq([k \in 1..Len(pieces) |-> Trim(pieces[k])], NonEmpty)

parsePluginList(input) == parseList(input)

IsSuffix(p, s) == Len(p) <= Len(s) /\ SubSeq(s, Len(s) - Len(p) + 1, Len(s)) = p

\* /^[\w-]+\/[\w-]+$/.test(s)
IsGitHubRepo(s) ==
    \E k \in 2..(Len(s) - 1) :
        /\ SubSeq(s, k, k) = "/"
        /\ \A j \in (1..Len(s)) \ {k} : SubSeq(s, j, j) \in WordChars \cup {"-"}

\* validateMarketplaceSource: the message of the error thrown ("" if none)
validateMarketplaceSource(source) ==
    LET normalized == normalizeNFC(source)
        head == "Invalid marketplace source \"" \o source \o "\": "
        isLocalPath == IsPrefix("./", normalized) \/ IsPrefix("../", normalized)
        isGitUrl == \/ IsPrefix("http://", normalized)
                    \/ IsPrefix("https://", normalized)
                    \/ IsSuffix(".git", normalized)
        isLocalPathValid == \/ IsPrefix("./", normalized)
                            \/ IsPrefix("../", normalized)
                            \/ IsPrefix("/", normalized)
    IN IF ~isLocalPath /\ (Contains(normalized, "../") \/ Contains(normalized, "..\\"))
       THEN head \o "path traversal detected"
       ELSE IF Len(normalized) > MAX_PLUGIN_NAME_LENGTH
       THEN head \o "exceeds maximum length of " \o IntToStr(MAX_PLUGIN_NAME_LENGTH)
              \o " characters"
       ELSE IF ~IsGitHubRepo(normalized) /\ ~isGitUrl /\ ~isLocalPathValid
       THEN head \o "must be GitHub (owner/repo), Git URL, or local path"
       ELSE ""

\* the character that opens a marketplace name in the output of 'claude
\* plugin marketplace list' (U+276F in the source, which has no escape here)
NameMarker == ">"

\* line.match(/^\s*<marker>\s*(\S.*)$/): the capture, trimmed ("" if no match)
marketplaceNameOf(line) ==
    LET t == TrimStart(line)
        rest == IF IsPrefix(NameMarker, t)
                THEN TrimStart(SubSeq(t, Len(NameMarker) + 1, Len(t)))
                ELSE ""
    IN IF rest # "" /\ ~Contains(rest, "\r") /\ ~Contains(rest, "\n")
       THEN Trim(rest) ELSE ""

\* /Source:\s*GitHub\s*\(([^)]+)\)/ tried at position k of the line: the
\* capture ("" if it does not match there)
sourceRepoAt(line, k) ==
    IF SubSeq(line, k, k + 6) # "Source:" THEN ""
    ELSE LET a == TrimStart(SubSeq(line, k + 7, Len(line)))
         IN IF ~IsPrefix("GitHub", a) THEN ""
            ELSE LET b == TrimStart(SubSeq(a, 7, Len(a)))
                 IN IF ~IsPrefix("(", b) THEN ""
                    ELSE LET c == SubSeq(b, 2, Len(b))
                             closing == {j \in 1..Len(c) : SubSeq(c, j, j) = ")"}
                         IN IF closing = {} THEN ""
                            ELSE LET first == CHOOSE j \in closing :
                                                 \A i \in closing : j <= i
                                 IN SubSeq(c, 1, first - 1)

\* line.match(/Source:\s*GitHub\s*\(([^)]+)\)/): the capture of the leftmost
\* match ("" if none)
sourceRepoOf(line) ==
    LET starts == {k \in 1..(Len(line) - 6) : sourceRepoAt(line, k) # ""}
    IN IF starts = {} THEN ""
       ELSE sourceRepoAt(line, CHOOSE k \in starts : \A j \in starts : k <= j)

\* the loop of isMarketplaceInstalled over the lines of the listing: the name
\* of the marketplace whose source is this repo ("" for null)
RECURSIVE findMarketplace(_, _, _)
findMarketplace(lines, currentMarketplaceName, repo) ==
    IF lines = << >> THEN ""
    ELSE IF marketplaceNameOf(Head(lines)) # ""
    THEN findMarketplace(Tail(lines), marketplaceNameOf(Head(lines)), repo)
    ELSE IF /\ currentMarketplaceName # ""
            /\ sourceRepoOf(Head(lines)) # ""
            /\ sourceRepoOf(Head(lines)) = repo
    THEN currentMarketplaceName
    ELSE findMarketplace(Tail(lines), currentMarketplaceName, repo)

\* the message of the error exec throws for a non-zero exit code
execError(tool, exit) ==
    "The process '" \o tool \o "' failed with exit code " \o IntToStr(exit)

\* isMarketplaceInstalled, given what 'claude plugin marketplace list' did:
\* out = [exit, stdout]; name is "" for null
isMarketplaceInstalled(repo, out) ==
    IF out.exit # 0
    THEN [name |-> "",
          warnings |-> << "Failed to check if marketplace \"" \o repo
                            \o "\" is installed: Error: "
                            \o execError("claude", out.exit),
                          "Will attempt to add marketplace anyway" >>]
    ELSE [name |-> findMarketplace(SplitAt(out.stdout, {"\n"}), "", repo),
          warnings |-> << >>]

\* the catch block of the loop of addOrUpdateMarketplaces
processError(marketplace, msg) ==
    "Failed to process marketplace \"" \o marketplace \o "\": Error: " \o msg

RECURSIVE Repeat(_, _)
Repeat(s, n) == IF n = 0 THEN ""
                ELSE IF n % 2 = 1 THEN s \o Repeat(s, n - 1)
                ELSE LET half == Repeat(s, n \div 2) IN half \o half

\* a name one character over the length limit
LongName == Repeat("a", MAX_PLUGIN_NAME_LENGTH + 1)

\* the plugin names the 'plugins' input is made of
PluginNames == {"valid-plugin", "plugin1@marketplace", "../malicious",
                "plugin;rm -rf /", LongName}

RECURSIVE JoinList(_, _)
JoinList(names, sep) ==
    IF Len(names) = 0 THEN ""
    ELSE IF Len(names) = 1 THEN names[1]
    ELSE names[1] \o sep \o JoinList(Tail(names), sep)

\* the 'plugins' inputs: comma-separated lists of names, and some inputs with
\* newlines, blanks and empty items
PluginListInputs ==
    {JoinList(l, ",") : l \in UNION {[1..n -> PluginNames] : n \in 1..MaxPlugins}}
      \cup {"", " ,\n", " valid-plugin ,\n../malicious\nplugin1@marketplace,"}

-----------------------------------------------------------------------------
(* main.ts: run() *)

\* values of the input 'version': none, the two channels, a literal version
\* the stable pointer never names and one that it names
VersionInputs == {"", "latest", "stable", "1.0.0", "2.0.27"}

\* the same without the literal that the stable pointer names
FewVersionInputs == VersionInputs \ {"2.0.27"}

\* core.getInput('version') || 'latest'
versionInput(input) == IF input = "" THEN "latest" ELSE input

\* run() installing whether or not the cache was restored
afterRestore_AlwaysInstall(hit) == "getPlatform"

\* run() calling restoreCache again after a miss
afterRestore_RetryOnMiss(hit) == IF ~hit THEN "restoreCache" ELSE "addToPath"

\* 'if (!cacheHit)': the step run() takes after restoreCache returned
afterRestore(hit) == IF ~hit THEN "getPlatform" ELSE "addToPath"

\* the external cache calls made so far in this run, with the error the
\* service raised ("" if none) and, for the save, the instant of the call
NoRestoreReq == [made |-> FALSE, paths |-> << >>, primaryKey |-> "",
                 restoreKeys |-> << >>, at |-> 0, err |-> ""]
NoSaveReq == [made |-> FALSE, paths |-> << >>, key |-> "", at |-> 0, err |-> ""]
NoInstall == [executable |-> FALSE, ver |-> ""]

Call(op, arg, args) == [op |-> op, arg |-> arg, args |-> args]

DownloadPath == "/home/runner/work/_temp/download"

Init ==
    /\ now = 0
    /\ pointer = 1
    /\ cacheStore = << >>
    /\ host \in RunnerHosts
    /\ runs = 0
    /\ pc = "idle"
    /\ version = ""
    /\ cacheHit = FALSE
    /\ restoreReq = NoRestoreReq
    /\ saveReq = NoSaveReq
    /\ matchedKey = ""
    /\ platform = NoPlatform
    /\ stableVersion = ""
    /\ expectedChecksum = ""
    /\ actualChecksum = ""
    /\ manifestServed = ""
    /\ stableServed = UNDEFINED
    /\ download = NoFile
    /\ installDir = NoInstall
    /\ calls = << >>
    /\ warnings = << >>
    /\ outputs = << >>
    /\ infos = << >>
    /\ failed = << >>
    /\ pluginInput = ""
    /\ pluginList = << >>
    /\ installed = << >>
    /\ githubToken = ""
    /\ marketplacesInput = ""
    /\ marketplaces = << >>
    /\ addedOrUpdated = 0
    /\ existing = ""

\* a catch block that reports the error under a heading of its own
Fail_Wrapped(msg) ==
    /\ failed' = Append(failed, "Installation failed: " \o msg)
    /\ pc' = "done"

\* the catch block of run(): core.setFailed(error.message)
Fail(msg) ==
    /\ failed' = Append(failed, msg)
    /\ pc' = "done"

\* a fresh runner starts run() and reads its inputs
StartRunWith(inputs) ==
    /\ pc \in {"idle", "done"}
    /\ runs < MaxRuns
    /\ \E input \in inputs : version' = versionInput(input)
    /\ runs' = runs + 1
    /\ pc' = "restoreCache"
    /\ cacheHit' = FALSE
    /\ restoreReq' = NoRestoreReq
    /\ saveReq' = NoSaveReq
    /\ matchedKey' = ""
    /\ platform' = NoPlatform
    /\ stableVersion' = ""
    /\ expectedChecksum' = ""
    /\ actualChecksum' = ""
    /\ manifestServed' = ""
    /\ stableServed' = UNDEFINED
    /\ download' = NoFile
    /\ installDir' = NoInstall
    /\ calls' = << >>
    /\ warnings' = << >>
    /\ outputs' = << >>
    /\ infos' = << >>
    /\ failed' = << >>
    /\ pluginInput' = ""
    /\ pluginList' = << >>
    /\ installed' = << >>
    /\ githubToken' = ""
    /\ marketplacesInput' = ""
    /\ marketplaces' = << >>
    /\ addedOrUpdated' = 0
    /\ existing' = ""
    /\ UNCHANGED << now, pointer, cacheStore, host >>

StartRun == StartRunWith(VersionInputs)

\* 'const cacheHit = await restoreCache({ version })' and the branch on it;
\* stamp is what the record of the request keeps as the instant of the call
RestoreCacheStamped(stamp) ==
    /\ pc = "restoreCache"
    /\ \E throws \in BOOLEAN :
         LET req == restoreCacheRequest(version, host.os, now)
             primaryKey == req.primaryKey
             restoreKeys == req.restoreKeys
             idx == IF throws THEN 0
                    ELSE CacheLookup(cacheStore, primaryKey, restoreKeys)
             ext == IF throws THEN [err |-> CacheError, key |-> UNDEFINED]
                    ELSE [err |-> "",
                          key |-> IF idx = 0 THEN UNDEFINED ELSE cacheStore[idx].key]
             r == restoreCache(ext)
         IN /\ restoreReq' = [made |-> TRUE, paths |-> req.paths,
                              primaryKey |-> primaryKey,
                              restoreKeys |-> restoreKeys, at |-> stamp,
                              err |-> ext.err]
            /\ calls' = Append(calls, Call("cache.restoreCache", primaryKey, restoreKeys))
            /\ matchedKey' = IF idx = 0 THEN "" ELSE cacheStore[idx].key
            /\ installDir' = IF idx = 0 THEN installDir ELSE cacheStore[idx].content
            /\ warnings' = IF r.warning = "" THEN warnings
                           ELSE Append(warnings, r.warning)
            /\ IF r.threw # ""
               THEN /\ Fail(r.threw)
                    /\ UNCHANGED << cacheHit, outputs, infos >>
               ELSE /\ cacheHit' = r.value
                    /\ outputs' = Append(outputs,
                           [name |-> "cache-hit",
                            value |-> IF r.value THEN "true" ELSE "false"])
                    /\ pc' = afterRestore(r.value)
                    /\ infos' = IF afterRestore(r.value) = "addToPath"
                                THEN Append(infos, "Using cached Claude Code installation")
                                ELSE infos
                    /\ UNCHANGED failed
    /\ UNCHANGED pluginVars
    /\ UNCHANGED << now, pointer, cacheStore, host, runs, version, saveReq,
                    platform, stableVersion, expectedChecksum, actualChecksum,
                    manifestServed, stableServed, download >>

\* the restore with no instant kept for the request
RestoreCache == RestoreCacheStamped(0)

\* the restore with the instant of the call kept for the request
RestoreCacheTimed == RestoreCacheStamped(now)

\* installClaudeCode up to its first await: getPlatform()
InstallStart ==
    /\ pc = "getPlatform"
    /\ calls' = Append(calls, Call("installClaudeCode", version, << >>))
    /\ LET r == getPlatform(host)
       IN IF r.err # ""
          THEN Fail(r.err) /\ UNCHANGED platform
          ELSE platform' = r.value /\ pc' = "fetchStable" /\ UNCHANGED failed
    /\ UNCHANGED pluginVars
    /\ UNCHANGED << now, pointer, cacheStore, host, runs, version, cacheHit,
                    restoreReq, saveReq, matchedKey, stableVersion,
                    expectedChecksum, actualChecksum, manifestServed, stableServed,
                    download, installDir, warnings, outputs, infos >>

\* what GET {bucket}/stable may answer while the pointer names version i
StableResponses(i) ==
    { [err |-> NetworkError, body |-> UNDEFINED],
      [err |-> "", body |-> StableVersionAt(i) \o "\n"],
      [err |-> "", body |-> " \f" \o VerticalTab \o "\n"],
      [err |-> "", body |-> ""] }

\* 'const stableVersion = await fetchStableVersion()'
FetchStable ==
    /\ pc = "fetchStable"
    /\ calls' = Append(calls, Call("downloadTool", StablePointerUrl, << >>))
    /\ \E resp \in StableResponses(pointer) :
         LET r == fetchStableVersion(resp)
         IN /\ stableServed' = resp.body
            /\ IF r.err # ""
               THEN Fail(r.err) /\ UNCHANGED stableVersion
               ELSE /\ stableVersion' = r.value
                    /\ pc' = "getChecksum"
                    /\ UNCHANGED failed
    /\ UNCHANGED pluginVars
    /\ UNCHANGED << now, pointer, cacheStore, host, runs, version, cacheHit,
                    restoreReq, saveReq, matchedKey, platform,
                    expectedChecksum, actualChecksum, manifestServed, download,
                    installDir, warnings, outputs, infos >>

\* what GET {bucket}/{version}/manifest.json may answer
ManifestResponses ==
    { [err |-> NetworkError, kind |-> ""] }
      \cup { [err |-> "", kind |-> k] : k \in ManifestKinds }

\* 'const expectedChecksum = await getChecksum(version, platform)'
GetChecksum ==
    /\ pc = "getChecksum"
    /\ calls' = Append(calls, Call("downloadTool",
                                   ManifestUrl(downloadVersion(version, stableVersion)),
                                   << >>))
    /\ \E resp \in ManifestResponses :
         LET r == getChecksum(resp, platform.platform)
         IN /\ manifestServed' = resp.kind
            /\ IF r.err # ""
               THEN Fail(r.err) /\ UNCHANGED expectedChecksum
               ELSE /\ expectedChecksum' = r.value
                    /\ pc' = "downloadBinary"
                    /\ UNCHANGED failed
    /\ UNCHANGED pluginVars
    /\ UNCHANGED << now, pointer, cacheStore, host, runs, version, cacheHit,
                    restoreReq, saveReq, matchedKey, platform, stableVersion,
                    stableServed, actualChecksum, download, installDir,
                    warnings, outputs, infos >>

\* what GET {bucket}/{version}/{platform}/claude may answer
BinaryResponses ==
    { [err |-> NetworkError, bytes |-> ""],
      [err |-> "", bytes |-> GenuineBinary],
      [err |-> "", bytes |-> TamperedBinary] }

\* 'const downloadPath = await tc.downloadTool(url)'
DownloadBinary ==
    /\ pc = "downloadBinary"
    /\ calls' = Append(calls, Call("downloadTool",
                                   BinaryUrl(downloadVersion(version, stableVersion),
                                             platform.platform), << >>))
    /\ \E resp \in BinaryResponses :
         IF resp.err # ""
         THEN Fail(resp.err) /\ UNCHANGED download
         ELSE /\ download' = [exists |-> TRUE, mode |-> "0644",
                              bytes |-> resp.bytes,
                              from |-> downloadVersion(version, stableVersion)]
              /\ pc' = "verify"
              /\ UNCHANGED failed
    /\ UNCHANGED pluginVars
    /\ UNCHANGED << now, pointer, cacheStore, host, runs, version, cacheHit,
                    restoreReq, saveReq, matchedKey, platform, stableVersion,
                    expectedChecksum, actualChecksum, manifestServed, stableServed,
                    installDir, warnings, outputs, infos >>

\* calculateSHA256, the comparison, unlink on mismatch, chmod on match
VerifyBinary ==
    /\ pc = "verify"
    /\ LET actual == SHA256(download.bytes)
           r == verifyDownload(download, actual, expectedChecksum)
           fileCalls == (IF r.file.exists THEN << >>
                         ELSE << Call("unlink", DownloadPath, << >>) >>)
                        \o (IF r.file.mode = "0755"
                            THEN << Call("chmod", DownloadPath, << "0755" >>) >>
                            ELSE << >>)
       IN /\ actualChecksum' = actual
          /\ download' = r.file
          /\ calls' = calls \o fileCalls
          /\ IF r.err # ""
             THEN Fail(r.err)
             ELSE pc' = "runInstaller" /\ UNCHANGED failed
    /\ UNCHANGED pluginVars
    /\ UNCHANGED << now, pointer, cacheStore, host, runs, version, cacheHit,
                    restoreReq, saveReq, matchedKey, platform, stableVersion,
                    expectedChecksum, manifestServed, stableServed, installDir, warnings,
                    outputs, infos >>

\* installClaudeCode with runInstaller in a try block whose finally removes
\* the download
downloadAfterThrow_Finally(file) == unlinkSync(file)

\* installClaudeCode when runInstaller throws: the error leaves through the
\* await and the unlinkSync below it is not reached
downloadAfterThrow(file) == file

\* what the subprocess '<binary> install' may do
InstallerOutcomes == {"installed", "exit1"}

\* the same, and an exit 0 that leaves no executable behind
AllInstallerOutcomes == InstallerOutcomes \cup {"nothing"}

\* 'await runInstaller(binaryPath, target)', the subprocess doing one of
\* these outcomes
RunInstallerWith(outcomes) ==
    /\ pc = "runInstaller"
    /\ calls' = Append(calls, Call("exec", DownloadPath, installerArgs(UNDEFINED)))
    /\ \E outcome \in outcomes :
         IF outcome = "exit1"
         THEN /\ Fail("The process '" \o DownloadPath \o "' failed with exit code 1")
              /\ download' = downloadAfterThrow(download)
              /\ UNCHANGED installDir
         ELSE /\ installDir' = IF outcome = "installed"
                              THEN [executable |-> TRUE, ver |-> download.from]
                              ELSE installDir
              /\ pc' = "cleanup"
              /\ UNCHANGED << failed, download >>
    /\ UNCHANGED pluginVars
    /\ UNCHANGED << now, pointer, cacheStore, host, runs, version, cacheHit,
                    restoreReq, saveReq, matchedKey, platform, stableVersion,
                    expectedChecksum, actualChecksum, manifestServed, stableServed,
                    warnings, outputs, infos >>

RunInstaller == RunInstallerWith(InstallerOutcomes)

RunInstallerAny == RunInstallerWith(AllInstallerOutcomes)

\* 'fs.unlinkSync(binaryPath)' and the return of installClaudeCode
Cleanup ==
    /\ pc = "cleanup"
    /\ download' = unlinkSync(download)
    /\ calls' = Append(calls, Call("unlink", DownloadPath, << >>))
    /\ infos' = Append(infos, "Claude Code installation completed")
    /\ pc' = "saveCache"
    /\ UNCHANGED pluginVars
    /\ UNCHANGED << now, pointer, cacheStore, host, runs, version, cacheHit,
                    restoreReq, saveReq, matchedKey, platform, stableVersion,
                    expectedChecksum, actualChecksum, manifestServed, stableServed,
                    installDir, warnings, outputs, failed >>

\* 'await saveCache({ version })'
SaveCache ==
    /\ pc = "saveCache"
    /\ \E throws \in BOOLEAN :
         LET req == saveCacheRequest(version, host.os, now)
             entry == [key |-> req.key, content |-> installDir]
             ext == [err |-> IF throws THEN CacheError ELSE ""]
             r == saveCache(ext)
         IN /\ saveReq' = [made |-> TRUE, paths |-> req.paths, key |-> req.key,
                           at |-> now, err |-> ext.err]
            /\ calls' = Append(calls, Call("cache.saveCache", req.key, << >>))
            /\ cacheStore' = IF throws THEN cacheStore
                             ELSE CacheStoreAfterSave(cacheStore, entry)
            /\ warnings' = IF r.warning = "" THEN warnings
                           ELSE Append(warnings, r.warning)
            /\ IF r.threw # ""
               THEN Fail(r.threw)
               ELSE pc' = "addToPath" /\ UNCHANGED failed
    /\ UNCHANGED pluginVars
    /\ UNCHANGED << now, pointer, host, runs, version, cacheHit, restoreReq,
                    matchedKey, platform, stableVersion, expectedChecksum,
                    actualChecksum, manifestServed, stableServed, download, installDir,
                    outputs, infos >>

\* 'await addToPath(paths.bin)'
AddToPath ==
    /\ pc = "addToPath"
    /\ calls' = Append(calls, Call("addPath", getClaudePaths.bin, << >>))
    /\ pc' = "verifyInstallation"
    /\ UNCHANGED pluginVars
    /\ UNCHANGED << now, pointer, cacheStore, host, runs, version, cacheHit,
                    restoreReq, saveReq, matchedKey, platform, stableVersion,
                    expectedChecksum, actualChecksum, manifestServed, stableServed,
                    download, installDir, warnings, outputs, infos, failed >>

\* what 'claude --version' may do: [err, stdout]
VersionOutputs(ver) ==
    { [err |-> "", stdout |-> ver \o " (Claude Code)\n"],
      [err |-> "", stdout |-> "\f" \o VerticalTab \o "\n"],
      [err |-> "spawn claude ENOENT", stdout |-> ""] }

\* verifyInstallation without the existsSync test: 'claude --version' is run
\* whether or not the executable is there
verifyInstallation_NoExistsTest(dir, out) ==
    IF ~dir.executable \/ out.err # ""
    THEN [err |-> "", version |-> "unknown", path |-> getClaudePaths.executable,
          warning |-> "Failed to get Claude Code version: Error: "
                        \o (IF out.err # "" THEN out.err ELSE "spawn claude ENOENT")]
    ELSE [err |-> "",
          version |-> IF Trim(out.stdout) = "" THEN "unknown" ELSE Trim(out.stdout),
          path |-> getClaudePaths.executable, warning |-> ""]

\* verifyInstallation: [err, version, path, warning]
verifyInstallation(dir, out) ==
    IF ~dir.executable
    THEN [err |-> "Failed to verify Claude Code installation: "
                    \o "Error: Claude Code executable not found",
          version |-> "", path |-> "", warning |-> ""]
    ELSE IF out.err # ""
    THEN [err |-> "", version |-> "unknown", path |-> getClaudePaths.executable,
          warning |-> "Failed to get Claude Code version: Error: " \o out.err]
    ELSE [err |-> "",
          version |-> IF Trim(out.stdout) = "" THEN "unknown" ELSE Trim(out.stdout),
          path |-> getClaudePaths.executable, warning |-> ""]

\* 'await verifyInstallation()', the two outputs and the success message
VerifyInstallation ==
    /\ pc = "verifyInstallation"
    /\ \E out \in VersionOutputs(installDir.ver) :
         LET r == verifyInstallation(installDir, out)
         IN IF r.err # ""
            THEN /\ Fail(r.err)
                 /\ UNCHANGED << calls, warnings, outputs, infos >>
            ELSE /\ calls' = Append(calls, Call("exec", "claude", << "--version" >>))
                 /\ warnings' = IF r.warning = "" THEN warnings
                                ELSE Append(warnings, r.warning)
                 /\ outputs' = outputs \o
                       << [name |-> "version", value |-> r.version],
                          [name |-> "claude-path", value |-> r.path] >>
                 /\ infos' = Append(infos, "Claude Code setup completed successfully!")
                 /\ pc' = "plugins"
                 /\ UNCHANGED failed
    /\ UNCHANGED pluginVars
    /\ UNCHANGED << now, pointer, cacheStore, host, runs, version, cacheHit,
                    restoreReq, saveReq, matchedKey, platform, stableVersion,
                    expectedChecksum, actualChecksum, manifestServed, stableServed,
                    download, installDir >>

-----------------------------------------------------------------------------
(* main.ts: the credentials, marketplace and plugin steps of run() *)

\* what these steps leave alone
runIdle == << now, pointer, cacheStore, host, runs, version, cacheHit,
              restoreReq, saveReq, matchedKey, platform, stableVersion,
              expectedChecksum, actualChecksum, manifestServed, stableServed,
              download, installDir >>

NoPluginInputs == [token |-> "", marketplaces |-> "", plugins |-> ""]

\* github_token, marketplaces and plugins as one record of inputs
Inputs(t, m, p) == [token |-> t, marketplaces |-> m, plugins |-> p]

\* values of the inputs github_token, marketplaces and plugins: none; a token
\* alone and with a marketplace and a plugin; lists without an entry; a
\* GitHub repository, a local path, a path traversal, two repositories; one
\* plugin, a valid plugin followed by an invalid one
PluginInputs ==
    { NoPluginInputs,
      Inputs("ghs_token", "", ""),
      Inputs("ghs_token", "owner/repo", "valid-plugin"),
      Inputs("", ",", ""),
      Inputs("", "owner/repo", ""),
      Inputs("", "./local-marketplace", ""),
      Inputs("", "owner/../repo", "valid-plugin"),
      Inputs("", "owner/repo,other/repo", "valid-plugin"),
      Inputs("", "", ","),
      Inputs("", "", "valid-plugin"),
      Inputs("", "", "valid-plugin,../malicious") }

\* the inputs of the runs that ask for no marketplace and no plugin, and of
\* the runs that ask for one plugin
FewPluginInputs ==
    {NoPluginInputs, Inputs("", "", "valid-plugin")}

\* the step run() takes after the credentials block
afterCredentials(marketplacesIn, pluginsIn) ==
    IF ~Falsy(marketplacesIn) THEN "addOrUpdateMarketplaces"
    ELSE IF ~Falsy(pluginsIn) THEN "installPlugins"
    ELSE "done"

\* the step run() takes after the marketplaces block
afterMarketplaces(pluginsIn) ==
    IF ~Falsy(pluginsIn) THEN "installPlugins" ELSE "finish"

CredentialsPath == "/home/runner/.git-credentials"

\* the three 'git config --global' commands of setupGitCredentials
GitConfigs ==
    << << "config", "--global", "credential.helper", "store" >>,
       << "config", "--global", "url.https://github.com/.insteadOf", "git@github.com:" >>,
       << "config", "--global", "url.https://.insteadOf", "ssh://" >> >>

GitConfigsDone ==
    Cardinality({i \in DOMAIN calls : calls[i].op = "exec" /\ calls[i].arg = "git"})

\* exit codes of the git and claude subprocesses
ExitCodes == {0, 1}

\* what 'claude plugin marketplace list' may print: no marketplace, the
\* marketplace of owner/repo, a marketplace of another repository
MarketplaceLists ==
    { [exit |-> 1, stdout |-> ""],
      [exit |-> 0, stdout |-> "No marketplaces configured\n"],
      [exit |-> 0, stdout |-> "Configured marketplaces:\n\n  " \o NameMarker
                                \o " claude-plugins\n    Source: GitHub (owner/repo)\n"],
      [exit |-> 0, stdout |-> "  " \o NameMarker
                                \o " other\n    Source: GitHub (other/repo)\n"] }

\* the inputs github_token, marketplaces and plugins (read by core.getInput
\* at the top of run(), first used here), the test on them, and
\* setupGitCredentials up to its first git command
StartPlugins(inputs) ==
    /\ pc = "plugins"
    /\ \E inp \in inputs :
         /\ githubToken' = inp.token
         /\ marketplacesInput' = inp.marketplaces
         /\ pluginInput' = inp.plugins
         /\ IF (~Falsy(inp.marketplaces) \/ ~Falsy(inp.plugins)) /\ ~Falsy(inp.token)
            THEN /\ calls' = calls \o << Call("setupGitCredentials", "", << >>),
                                         Call("writeFile", CredentialsPath, << "0600" >>) >>
                 /\ pc' = "gitConfig"
            ELSE /\ pc' = afterCredentials(inp.marketplaces, inp.plugins)
                 /\ UNCHANGED calls
    /\ UNCHANGED << warnings, outputs, infos, failed, pluginList, installed,
                    marketplaces, addedOrUpdated, existing >>
    /\ UNCHANGED runIdle

\* run() imports setGitHubToken from './plugins' (main.ts:4) and calls it
\* after setupGitCredentials (main.ts:52); no plugins.ts of the sources exports
\* a function of this name, so the import is undefined and the call throws
\* this TypeError, which the catch block of run() reports
SetGitHubTokenError == "(0 , plugins_1.setGitHubToken) is not a function"

\* setupGitCredentials: one 'await exec.exec("git", ...)'; after the third,
\* the call of setGitHubToken, which throws
GitConfig ==
    /\ pc = "gitConfig"
    /\ LET k == GitConfigsDone + 1
           command == Call("exec", "git", GitConfigs[k])
       IN \E exit \in ExitCodes :
            IF exit # 0
            THEN /\ calls' = Append(calls, command)
                 /\ Fail("Failed to setup Git credentials: Error: "
                           \o execError("git", exit))
            ELSE IF k < Len(GitConfigs)
            THEN /\ calls' = Append(calls, command)
                 /\ UNCHANGED << pc, failed >>
            ELSE /\ calls' = Append(calls, command)
                 /\ Fail(SetGitHubTokenError)
    /\ UNCHANGED << warnings, outputs, infos >>
    /\ UNCHANGED pluginVars
    /\ UNCHANGED runIdle

\* addOrUpdateMarketplaces up to its loop: parse the input, return 0 with a
\* warning when there is no source in it
StartMarketplaces ==
    /\ pc = "addOrUpdateMarketplaces"
    /\ calls' = Append(calls, Call("addOrUpdateMarketplaces", "", << >>))
    /\ marketplaces' = parseList(marketplacesInput)
    /\ IF Len(marketplaces') = 0
       THEN /\ warnings' = Append(warnings, "No marketplaces specified to add")
            /\ outputs' = Append(outputs, [name |-> "marketplaces_added", value |-> "0"])
            /\ pc' = afterMarketplaces(pluginInput)
       ELSE /\ pc' = "marketplace"
            /\ UNCHANGED << warnings, outputs >>
    /\ UNCHANGED << infos, failed, pluginInput, pluginList, installed,
                    githubToken, marketplacesInput, addedOrUpdated, existing >>
    /\ UNCHANGED runIdle

\* addOrUpdateMarketplace up to its add or update command: validate the
\* source and, for a GitHub repository, look it up in the marketplace list
CheckMarketplace ==
    /\ pc = "marketplace"
    /\ LET source == marketplaces[addedOrUpdated + 1]
           invalid == validateMarketplaceSource(source)
       IN IF invalid # ""
          THEN /\ Fail(processError(source, invalid))
               /\ UNCHANGED << calls, warnings, existing >>
          ELSE IF IsGitHubRepo(source)
          THEN /\ calls' = Append(calls, Call("exec", "claude",
                                              << "plugin", "marketplace", "list" >>))
               /\ \E out \in MarketplaceLists :
                    LET r == isMarketplaceInstalled(source, out)
                    IN /\ warnings' = warnings \o r.warnings
                       /\ existing' = r.name
                       /\ pc' = IF r.name # "" THEN "updateMarketplace"
                                ELSE "addMarketplace"
               /\ UNCHANGED failed
          ELSE /\ pc' = "addMarketplace"
               /\ UNCHANGED << calls, warnings, existing, failed >>
    /\ UNCHANGED << outputs, infos, pluginInput, pluginList, installed,
                    githubToken, marketplacesInput, marketplaces, addedOrUpdated >>
    /\ UNCHANGED runIdle

\* 'claude plugin marketplace update <name>' or '... add <source>', and the
\* rest of the turn of the loop of addOrUpdateMarketplaces
MarketplaceCommand ==
    /\ pc \in {"updateMarketplace", "addMarketplace"}
    /\ LET source == marketplaces[addedOrUpdated + 1]
           args == IF pc = "updateMarketplace"
                   THEN << "plugin", "marketplace", "update", existing >>
                   ELSE << "plugin", "marketplace", "add", source >>
       IN /\ calls' = Append(calls, Call("exec", "claude", args))
          /\ \E exit \in ExitCodes :
               IF exit # 0
               THEN /\ Fail(processError(source, execError("claude", exit)))
                    /\ UNCHANGED << addedOrUpdated, outputs >>
               ELSE /\ addedOrUpdated' = addedOrUpdated + 1
                    /\ IF addedOrUpdated' = Len(marketplaces)
                       THEN /\ outputs' = Append(outputs,
                                   [name |-> "marketplaces_added",
                                    value |-> IntToStr(addedOrUpdated')])
                            /\ pc' = afterMarketplaces(pluginInput)
                       ELSE /\ pc' = "marketplace"
                            /\ UNCHANGED outputs
                    /\ UNCHANGED failed
    /\ existing' = ""
    /\ UNCHANGED << warnings, infos, pluginInput, pluginList, installed,
                    githubToken, marketplacesInput, marketplaces >>
    /\ UNCHANGED runIdle

\* installPlugins up to its loop: parse the input, return [] with a warning
\* when there is no name in it. inRun: called by run(), which sets the output
\* plugins_installed when it returns; otherwise called on its own
StartInstallPluginsIn(inRun) ==
    /\ pc = "installPlugins"
    /\ pluginList' = parsePluginList(pluginInput)
    /\ calls' = IF inRun THEN Append(calls, Call("installPlugins", "", << >>))
                ELSE calls
    /\ IF Len(pluginList') = 0
       THEN /\ warnings' = Append(warnings, "No plugins specified to install")
            /\ pc' = IF inRun THEN "finish" ELSE "returned"
            /\ outputs' = IF inRun
                          THEN Append(outputs, [name |-> "plugins_installed",
                                                value |-> ""])
                          ELSE outputs
       ELSE /\ pc' = "plugin"
            /\ UNCHANGED << warnings, outputs >>
    /\ UNCHANGED << infos, failed, pluginInput, installed >>
    /\ UNCHANGED marketVars
    /\ UNCHANGED runIdle

\* one turn of the loop of installPlugins: validate the next name, run
\* 'claude plugin install' for it and push it on the installed list; after
\* the last name, return
InstallPluginIn(inRun) ==
    /\ pc = "plugin"
    /\ LET plugin == pluginList[Len(installed) + 1]
           invalid == validatePluginName(plugin)
           thrown(msg) == IF inRun THEN Fail(msg)
                          ELSE failed' = << msg >> /\ pc' = "threw"
       IN IF invalid # ""
          THEN /\ thrown(invalid)
               /\ UNCHANGED << calls, installed, outputs >>
          ELSE /\ calls' = Append(calls, Call("exec", "claude",
                                              << "plugin", "install", plugin >>))
               /\ \E exit \in ExitCodes :
                    IF exit # 0
                    THEN /\ thrown(execError("claude", exit))
                         /\ UNCHANGED << installed, outputs >>
                    ELSE /\ installed' = Append(installed, plugin)
                         /\ IF Len(installed') < Len(pluginList)
                            THEN UNCHANGED << pc, outputs >>
                            ELSE /\ pc' = IF inRun THEN "finish" ELSE "returned"
                                 /\ outputs' = IF inRun
                                       THEN Append(outputs,
                                              [name |-> "plugins_installed",
                                               value |-> JoinList(installed', ",")])
                                       ELSE outputs
                         /\ UNCHANGED failed
    /\ UNCHANGED << warnings, infos, pluginInput, pluginList >>
    /\ UNCHANGED marketVars
    /\ UNCHANGED runIdle

\* installPlugins as run() calls it
RunStartInstallPlugins == StartInstallPluginsIn(TRUE)

RunInstallPlugin == InstallPluginIn(TRUE)

\* the last lines of the try block of run()
FinishRun ==
    /\ pc = "finish"
    /\ infos' = Append(infos, "Plugin setup completed successfully!")
    /\ pc' = "done"
    /\ UNCHANGED << calls, warnings, outputs, failed >>
    /\ UNCHANGED pluginVars
    /\ UNCHANGED runIdle

\* the credentials, marketplace and plugin steps of run()
PluginSteps ==
    \/ StartPlugins(PluginInputs)
    \/ GitConfig
    \/ StartMarketplaces
    \/ CheckMarketplace
    \/ MarketplaceCommand
    \/ RunStartInstallPlugins
    \/ RunInstallPlugin
    \/ FinishRun

\* the same for the runs whose inputs are in FewPluginInputs: no token and no
\* marketplace, so that run() goes from its installation steps to installPlugins
\* or to its end
FewPluginSteps ==
    \/ StartPlugins(FewPluginInputs)
    \/ RunStartInstallPlugins
    \/ RunInstallPlugin
    \/ FinishRun

-----------------------------------------------------------------------------
(* The environment *)

\* time passes
Tick ==
    /\ now < MaxTicks * HoursPerTick
    /\ now' = now + HoursPerTick
    /\ UNCHANGED pluginVars
    /\ UNCHANGED << pointer, cacheStore, host, runs, pc, version, cacheHit,
                    restoreReq, saveReq, matchedKey, platform, stableVersion,
                    expectedChecksum, actualChecksum, manifestServed, stableServed,
                    download, installDir, calls, warnings, outputs, infos, failed >>

\* a new stable release: the remote pointer moves to the next version
BumpStable ==
    /\ pointer < MaxPointer
    /\ pointer' = pointer + 1
    /\ UNCHANGED pluginVars
    /\ UNCHANGED << now, cacheStore, host, runs, pc, version, cacheHit,
                    restoreReq, saveReq, matchedKey, platform, stableVersion,
                    expectedChecksum, actualChecksum, manifestServed, stableServed,
                    download, installDir, calls, warnings, outputs, infos, failed >>

Next ==
    \/ StartRunWith(FewVersionInputs)
    \/ RestoreCache
    \/ InstallStart
    \/ FetchStable
    \/ GetChecksum
    \/ DownloadBinary
    \/ VerifyBinary
    \/ RunInstaller
    \/ Cleanup
    \/ SaveCache
    \/ AddToPath
    \/ VerifyInstallation
    \/ FewPluginSteps
    \/ Tick
    \/ BumpStable

Spec == Init /\ [][Next]_vars

-----------------------------------------------------------------------------
(* run() followed from start to end on a runner whose cache starts empty.
   SoloSpec has the steps of Spec with fewer runs and every version input.
   SetupSpec follows the runs through the inputs github_token, marketplaces
   and plugins of PluginInputs, with the clock and the stable pointer
   standing still; LiveSpec
   adds to it that a run that can take a step takes it: every await of run()
   is on an external call that returns or throws, and the event loop then
   resumes run(). *)

SoloStartRun == runs < MaxSoloRuns /\ StartRun

\* the steps of run() after its start
RunStep ==
    \/ RestoreCache
    \/ InstallStart
    \/ FetchStable
    \/ GetChecksum
    \/ DownloadBinary
    \/ VerifyBinary
    \/ RunInstaller
    \/ Cleanup
    \/ SaveCache
    \/ AddToPath
    \/ VerifyInstallation
    \/ FewPluginSteps

SoloNext ==
    \/ SoloStartRun
    \/ RunStep
    \/ Tick
    \/ BumpStable

SoloSpec == Init /\ [][SoloNext]_vars

\* the steps of run() with the plugin inputs of PluginInputs
SetupStep ==
    \/ RestoreCache
    \/ InstallStart
    \/ FetchStable
    \/ GetChecksum
    \/ DownloadBinary
    \/ VerifyBinary
    \/ RunInstaller
    \/ Cleanup
    \/ SaveCache
    \/ AddToPath
    \/ VerifyInstallation
    \/ PluginSteps

SetupNext ==
    \/ SoloStartRun
    \/ SetupStep

\* one run from start to end, the clock and the stable pointer standing still
SetupSpec == Init /\ [][SetupNext]_vars

LiveSpec == SetupSpec /\ WF_vars(SetupStep)

-----------------------------------------------------------------------------
(* run() on runners whose installer may exit 0 without installing, with the *)
(* clock and the stable pointer standing still                              *)

VerifyNext ==
    \/ StartRun
    \/ RestoreCache
    \/ InstallStart
    \/ FetchStable
    \/ GetChecksum
    \/ DownloadBinary
    \/ VerifyBinary
    \/ RunInstallerAny
    \/ Cleanup
    \/ SaveCache
    \/ AddToPath
    \/ VerifyInstallation
    \/ FewPluginSteps

VerifySpec == Init /\ [][VerifyNext]_vars

-----------------------------------------------------------------------------
(* One run() with the clock running and the instants of both cache requests *)
(* kept                                                                     *)

TimedNext ==
    \/ SoloStartRun
    \/ RestoreCacheTimed
    \/ InstallStart
    \/ FetchStable
    \/ GetChecksum
    \/ DownloadBinary
    \/ VerifyBinary
    \/ RunInstaller
    \/ Cleanup
    \/ SaveCache
    \/ AddToPath
    \/ VerifyInstallation
    \/ FewPluginSteps
    \/ Tick

TimedSpec == Init /\ [][TimedNext]_vars

-----------------------------------------------------------------------------
(* The key functions of cache.ts called on their own, as the unit tests do:
   one process on one host calls getCacheKey and getRestoreKeys with tokens
   of its choice while the clock advances. Each call is logged with its
   token, its result and the clock it was made at. *)

KeyTokens == {"latest", "stable", "1.0.0", "2.0.27"}

LiteralTokens == KeyTokens \ {"latest", "stable"}

KeyCall(op, token, result, t) ==
    [op |-> op, arg |-> token, args |-> result, at |-> t]

KeyInit ==
    /\ now = 0
    /\ pointer = 1
    /\ cacheStore = << >>
    /\ host \in Hosts
    /\ runs = 0
    /\ pc = "keys"
    /\ version = ""
    /\ cacheHit = FALSE
    /\ restoreReq = NoRestoreReq
    /\ saveReq = NoSaveReq
    /\ matchedKey = ""
    /\ platform = NoPlatform
    /\ stableVersion = ""
    /\ expectedChecksum = ""
    /\ actualChecksum = ""
    /\ manifestServed = ""
    /\ stableServed = UNDEFINED
    /\ download = NoFile
    /\ installDir = NoInstall
    /\ calls = << >>
    /\ warnings = << >>
    /\ outputs = << >>
    /\ infos = << >>
    /\ failed = << >>
    /\ pluginInput = ""
    /\ pluginList = << >>
    /\ installed = << >>
    /\ githubToken = ""
    /\ marketplacesInput = ""
    /\ marketplaces = << >>
    /\ addedOrUpdated = 0
    /\ existing = ""

keyIdle == << pointer, cacheStore, host, runs, pc, version, cacheHit,
              restoreReq, saveReq, matchedKey, platform, stableVersion,
              expectedChecksum, actualChecksum, manifestServed, stableServed,
              download, installDir, warnings, outputs, infos, failed,
              pluginInput, pluginList, installed, marketVars >>

GetCacheKeyCall ==
    /\ Len(calls) < MaxKeyCalls
    /\ \E v \in KeyTokens :
         calls' = Append(calls, KeyCall("getCacheKey", v,
                                        << getCacheKey(v, host.os, now) >>, now))
    /\ UNCHANGED now
    /\ UNCHANGED keyIdle

GetRestoreKeysCall ==
    /\ Len(calls) < MaxKeyCalls
    /\ \E v \in KeyTokens :
         calls' = Append(calls, KeyCall("getRestoreKeys", v,
                                        getRestoreKeys(v, host.os), now))
    /\ UNCHANGED now
    /\ UNCHANGED keyIdle

KeyTick ==
    /\ now < MaxKeyTicks * HoursPerTick
    /\ now' = now + HoursPerTick
    /\ UNCHANGED calls
    /\ UNCHANGED keyIdle

KeyNext ==
    \/ GetCacheKeyCall
    \/ GetRestoreKeysCall
    \/ KeyTick

KeySpec == KeyInit /\ [][KeyNext]_vars

-----------------------------------------------------------------------------
(* getPlatform called on its own, on every kind of host Node can report:
   the values of os.platform() and os.arch(), with or without a musl libc
   marker file on disk. *)

OsTypes == {"aix", "darwin", "freebsd", "linux", "openbsd", "sunos", "win32"}

ArchTypes == {"arm", "arm64", "ia32", "ppc64", "x64"}

DetectHosts == [os : OsTypes, arch : ArchTypes, musl : BOOLEAN]

PlatformInit ==
    /\ now = 0
    /\ pointer = 1
    /\ cacheStore = << >>
    /\ host \in DetectHosts
    /\ runs = 0
    /\ pc = "detect"
    /\ version = ""
    /\ cacheHit = FALSE
    /\ restoreReq = NoRestoreReq
    /\ saveReq = NoSaveReq
    /\ matchedKey = ""
    /\ platform = NoPlatform
    /\ stableVersion = ""
    /\ expectedChecksum = ""
    /\ actualChecksum = ""
    /\ manifestServed = ""
    /\ stableServed = UNDEFINED
    /\ download = NoFile
    /\ installDir = NoInstall
    /\ calls = << >>
    /\ warnings = << >>
    /\ outputs = << >>
    /\ infos = << >>
    /\ failed = << >>
    /\ pluginInput = ""
    /\ pluginList = << >>
    /\ installed = << >>
    /\ githubToken = ""
    /\ marketplacesInput = ""
    /\ marketplaces = << >>
    /\ addedOrUpdated = 0
    /\ existing = ""

\* one call of getPlatform(): the value returned or the error thrown
DetectPlatform ==
    /\ pc = "detect"
    /\ LET r == getPlatform(host)
       IN /\ platform' = r.value
          /\ failed' = IF r.err # "" THEN << r.err >> ELSE << >>
    /\ pc' = "detected"
    /\ UNCHANGED pluginVars
    /\ UNCHANGED << now, pointer, cacheStore, host, runs, version, cacheHit,
                    restoreReq, saveReq, matchedKey, stableVersion,
                    expectedChecksum, actualChecksum, manifestServed, stableServed,
                    download, installDir, calls, warnings, outputs, infos >>

PlatformNext == DetectPlatform

PlatformSpec == PlatformInit /\ [][PlatformNext]_vars

-----------------------------------------------------------------------------
(* plugins.ts (src/unnamed/part_002): installPlugins called on its own *)

PluginInit ==
    /\ now = 0
    /\ pointer = 1
    /\ cacheStore = << >>
    /\ host \in {h \in RunnerHosts : h.os = "linux" /\ h.arch = "x64"}
    /\ runs = 0
    /\ pc = "installPlugins"
    /\ version = ""
    /\ cacheHit = FALSE
    /\ restoreReq = NoRestoreReq
    /\ saveReq = NoSaveReq
    /\ matchedKey = ""
    /\ platform = NoPlatform
    /\ stableVersion = ""
    /\ expectedChecksum = ""
    /\ actualChecksum = ""
    /\ manifestServed = ""
    /\ stableServed = UNDEFINED
    /\ download = NoFile
    /\ installDir = NoInstall
    /\ calls = << >>
    /\ warnings = << >>
    /\ outputs = << >>
    /\ infos = << >>
    /\ failed = << >>
    /\ pluginInput \in PluginListInputs
    /\ pluginList = << >>
    /\ installed = << >>
    /\ githubToken = ""
    /\ marketplacesInput = ""
    /\ marketplaces = << >>
    /\ addedOrUpdated = 0
    /\ existing = ""

\* installPlugins called on its own
StartInstallPlugins == StartInstallPluginsIn(FALSE)

InstallPlugin == InstallPluginIn(FALSE)

PluginNext ==
    \/ StartInstallPlugins
    \/ InstallPlugin

PluginSpec == PluginInit /\ [][PluginNext]_vars

-----------------------------------------------------------------------------
(* Observations on the current run *)

Range(seq) == {seq[i] : i \in DOMAIN seq}

Ops == {calls[i].op : i \in DOMAIN calls}

\* positions in calls of the calls with this op
Positions(op) == {i \in DOMAIN calls : calls[i].op = op}

\* the installer subprocess '<download> install' was started
InstallerStarted ==
    \E i \in DOMAIN calls : /\ calls[i].op = "exec"
                            /\ calls[i].arg = DownloadPath
                            /\ calls[i].args[1] = "install"

Chmodded == "chmod" \in Ops

\* the checksum the served manifest holds for the detected platform
ManifestChecksum == PlatformData(ManifestOf(manifestServed), platform.platform).checksum

\* the digests have been compared in this run
Compared == actualChecksum # ""

ChecksumMismatchMessage ==
    "Checksum verification failed. Expected: " \o expectedChecksum
      \o ", Got: " \o actualChecksum

InstallCompleted == "Claude Code installation completed" \in Range(infos)

\* the positions of run() in its credentials, marketplace and plugin steps
PluginPcs == {"plugins", "gitConfig", "addOrUpdateMarketplaces", "marketplace",
              "updateMarketplace", "addMarketplace", "installPlugins", "plugin",
              "finish"}

AfterSave == {"addToPath", "verifyInstallation", "done"} \cup PluginPcs

-----------------------------------------------------------------------------
(* Claims *)

\* C1: the installer subprocess is started only on a download whose SHA-256
\* digest equals the checksum the manifest holds for the stable version and
\* the platform; the download is accepted (made executable) iff the two
\* digests are equal.
C1_InstallerOnlyOnVerifiedDownload ==
    /\ Compared =>
         /\ actualChecksum = SHA256(download.bytes)
         /\ expectedChecksum = ManifestChecksum
         /\ download.from = stableVersion
         /\ (download.mode = "0755") <=> (actualChecksum = expectedChecksum)
    /\ InstallerStarted =>
         /\ Compared
         /\ download.mode = "0755"
         /\ SHA256(download.bytes) = ManifestChecksum

\* C1 witness: the installer ran on an accepted download
C1_Witness ==
    /\ InstallerStarted
    /\ SHA256(download.bytes) = ManifestChecksum
    /\ pc = "cleanup"

\* C2: after a cache hit the run never calls installClaudeCode (no request
\* to the remote bucket, no installer subprocess) and never calls saveCache.
C2_HitSkipsInstallAndSave ==
    cacheHit =>
      /\ Ops \cap {"installClaudeCode", "downloadTool", "cache.saveCache",
                   "chmod", "unlink"} = {}
      /\ ~InstallerStarted
      /\ ~saveReq.made
      /\ pc \in AfterSave

\* C2 witness: a run that hit the cache ended successfully
C2_Witness == cacheHit /\ pc = "done" /\ failed = << >>

\* C3: after a cache miss the run calls installClaudeCode and then saveCache;
\* the external save is requested only after the install completed, and under
\* the primary key, never under a fallback key.
C3_MissInstallsThenSaves ==
    /\ (restoreReq.made /\ ~cacheHit /\ pc # "getPlatform")
         => "installClaudeCode" \in Ops
    /\ (~cacheHit /\ pc \in AfterSave \ {"done"})
         => saveReq.made
    /\ saveReq.made =>
         /\ ~cacheHit
         /\ InstallCompleted
         /\ InstallerStarted
         /\ \A i \in Positions("installClaudeCode"), j \in Positions("cache.saveCache") :
               i < j
         /\ \A i \in Positions("exec"), j \in Positions("cache.saveCache") :
               calls[i].arg = DownloadPath => i < j
         /\ saveReq.key = restoreCacheRequest(version, host.os, saveReq.at).primaryKey
         /\ saveReq.key \notin Range(restoreReq.restoreKeys)
         /\ Cardinality(Positions("cache.saveCache")) = 1

\* C3 witness: a run that missed has installed and asked for the save
C3_Witness == ~cacheHit /\ saveReq.made /\ pc = "addToPath"

\* C4: when the digest of the download differs from the expected checksum the
\* run fails with the checksum-mismatch error, the download is gone, it was
\* never made executable, the installer was not started and nothing is saved.
C4_MismatchDeletesAndFails ==
    (Compared /\ actualChecksum # expectedChecksum) =>
      /\ pc = "done"
      /\ failed = << ChecksumMismatchMessage >>
      /\ ~download.exists
      /\ download.mode # "0755"
      /\ ~Chmodded
      /\ calls[Len(calls)].op = "unlink"
      /\ ~InstallerStarted
      /\ ~saveReq.made

\* C4 witness: a tampered download was compared against the genuine checksum
C4_Witness ==
    /\ Compared
    /\ download.bytes = TamperedBinary
    /\ expectedChecksum = GoodChecksum

\* C5: an error of the external cache's restore is caught in restoreCache:
\* the result is false, the run is not failed by it, and the install step
\* runs as on an ordinary miss.
C5_RestoreErrorIsAMiss ==
    (restoreReq.made /\ restoreReq.err # "") =>
      /\ ~cacheHit
      /\ [name |-> "cache-hit", value |-> "false"] \in Range(outputs)
      /\ restoreReq.err \notin Range(failed)
      /\ \E i \in DOMAIN warnings : IsPrefix("Failed to restore cache: ", warnings[i])
      /\ pc = "getPlatform" \/ "installClaudeCode" \in Ops

\* C5 witness: the restore raised an error and the install went through
C5_Witness == restoreReq.err # "" /\ InstallCompleted

\* C6: an error of the external cache's save is caught in saveCache and
\* logged as a warning: the run is not failed by it and goes on with the PATH,
\* the verification and the outputs.
C6_SaveErrorIsAWarning ==
    (saveReq.made /\ saveReq.err # "") =>
      /\ \E i \in DOMAIN warnings : IsPrefix("Failed to save cache: ", warnings[i])
      /\ saveReq.err \notin Range(failed)
      /\ pc \in AfterSave
      /\ pc # "addToPath" => "addPath" \in Ops
      /\ (pc \in PluginPcs \cup {"done"} /\ installDir.executable) =>
            "version" \in {outputs[i].name : i \in DOMAIN outputs}

\* C6 witness: the save raised an error and the run ended successfully
C6_Witness == saveReq.err # "" /\ pc = "done" /\ failed = << >>

\* the keys runs with token "latest" saved under on days before today
EarlierLatestKeys ==
    { getCacheKey("latest", host.os, t) :
        t \in {u \in 0..now : u \div HoursPerDay < now \div HoursPerDay} }

\* C7: with token "stable", once the remote pointer names a newer version,
\* restoreCache never reports a hit on an install of an older version.
C7_StableNeverReusesOlderInstall ==
    [][(pc = "restoreCache" /\ version = "stable" /\ cacheHit')
         => installDir'.ver = StableVersionAt(pointer)]_vars

\* C8: with token "latest", a run on a day for which the cache holds only
\* entries saved by "latest" runs of earlier days does not reuse them.
C8_LatestDoesNotReuseEarlierDays ==
    [][(/\ pc = "restoreCache"
        /\ version = "latest"
        /\ cacheStore # << >>
        /\ \A i \in DOMAIN cacheStore : cacheStore[i].key \in EarlierLatestKeys)
         => ~cacheHit']_vars

\* C9: the primary key built for token "stable" is the key of the version the
\* stable pointer names, "claude-code-{platform}-R", the same as for the
\* literal version R.
C9_StableKeyIsResolvedKey ==
    [][(pc = "restoreCache" /\ version = "stable")
         => /\ restoreReq'.primaryKey
                 = "claude-code-" \o host.os \o "-" \o StableVersionAt(pointer)
            /\ restoreReq'.primaryKey
                 = getCacheKey(StableVersionAt(pointer), host.os, now)]_vars

\* C10: in one run the stable pointer is fetched at most once, and with token
\* "stable" every cache key and every download URL of the run is built from
\* the version that fetch returned.
C10_OneResolvedVersionPerRun ==
    /\ Cardinality({i \in Positions("downloadTool") :
                      calls[i].arg = StablePointerUrl}) <= 1
    /\ (version = "stable" /\ stableVersion # "") =>
         /\ restoreReq.primaryKey = "claude-code-" \o host.os \o "-" \o stableVersion
         /\ IsPrefix("claude-code-" \o host.os \o "-" \o stableVersion,
                     restoreReq.restoreKeys[1])
         /\ saveReq.made =>
              saveReq.key = "claude-code-" \o host.os \o "-" \o stableVersion
         /\ \A i \in Positions("downloadTool") :
              calls[i].arg \in {StablePointerUrl, ManifestUrl(stableVersion),
                                BinaryUrl(stableVersion, platform.platform)}

IsDownloadCall(c) == c.op = "downloadTool"

\* the requests this run has made with tc.downloadTool, in order
Requests == SelectSeq(calls, IsDownloadCall)

\* the part of a URL after the bucket
PathOf(url) == SubSeq(url, Len(GCS_BUCKET) + 1, Len(url))

\* no version token occurs in the bucket's own URL
BucketHasNoToken ==
    \A v \in {versionInput(i) : i \in VersionInputs} : ~Contains(GCS_BUCKET, v)

\* the versions the stable pointer has named so far
PointerVersions == {StableVersionAt(k) : k \in 1..pointer}

\* the tokens a run may be given
Tokens == {versionInput(i) : i \in VersionInputs}

\* the text occurs in the manifest URL and in the binary URL of a run with
\* this token that reads this version from the stable pointer on this platform
InUrlsOf(text, token, stable, platformId) ==
    /\ Contains(PathOf(ManifestUrl(downloadVersion(token, stable))), text)
    /\ Contains(PathOf(BinaryUrl(downloadVersion(token, stable), platformId)), text)

\* C15 as first stated: installClaudeCode downloads the stable channel
\* whatever token was requested: the manifest URL and the binary URL of a run
\* are built from the version read from the stable pointer and the platform
\* alone, so runs that differ only in the token request the same URLs, and
\* the token occurs in neither URL.
C15_Original ==
    LET urls == Requests
    IN /\ Len(urls) <= 3
       /\ Len(urls) >= 1 => urls[1].arg = StablePointerUrl
       /\ Len(urls) >= 2 =>
             /\ stableVersion \in PointerVersions
             /\ urls[2].arg = ManifestUrl(stableVersion)
             /\ BucketHasNoToken
             /\ ~Contains(PathOf(urls[2].arg), version)
       /\ Len(urls) >= 3 =>
             /\ urls[3].arg = BinaryUrl(stableVersion, platform.platform)
             /\ ~Contains(PathOf(urls[3].arg), version)

\* C15: installClaudeCode downloads the stable channel whatever token was
\* requested: the manifest URL and the binary URL of a run are built from the
\* version read from the stable pointer and the platform alone, so a run
\* with any other token that reads the same pointer requests the same URLs.
\* The token occurs in a URL only when it occurs in the version the pointer
\* names, and then it occurs in the URLs of the runs with every other token
\* too.
C15_DownloadsIgnoreTheToken ==
    LET urls == Requests
    IN /\ Len(urls) <= 3
       /\ Len(urls) >= 1 => urls[1].arg = StablePointerUrl
       /\ Len(urls) >= 2 =>
             /\ stableVersion \in PointerVersions
             /\ urls[2].arg = ManifestUrl(stableVersion)
             /\ \A t \in Tokens :
                   ManifestUrl(downloadVersion(t, stableVersion)) = urls[2].arg
             /\ BucketHasNoToken
             /\ Contains(PathOf(urls[2].arg), version) =>
                   /\ Contains(stableVersion, version)
                   /\ \A t \in Tokens :
                         InUrlsOf(version, t, stableVersion, platform.platform)
       /\ Len(urls) >= 3 =>
             /\ urls[3].arg = BinaryUrl(stableVersion, platform.platform)
             /\ \A t \in Tokens :
                   BinaryUrl(downloadVersion(t, stableVersion), platform.platform)
                     = urls[3].arg
             /\ Contains(PathOf(urls[3].arg), version) =>
                   /\ Contains(stableVersion, version)
                   /\ \A t \in Tokens :
                         InUrlsOf(version, t, stableVersion, platform.platform)

\* a run asked for the literal version 2.0.27 while the stable pointer names
\* 2.0.27 has requested the manifest and the binary of the stable version:
\* the URLs are those of a run asked for any other token, and hold the token
C15_Witness ==
    /\ version = "2.0.27"
    /\ pointer = 1
    /\ \E i, j \in Positions("downloadTool") :
          /\ calls[i].arg = ManifestUrl("2.0.27")
          /\ calls[j].arg = BinaryUrl("2.0.27", "linux-x64")
          /\ Contains(PathOf(calls[i].arg), version)

\* manifests without an entry for the platform of the run
NoEntryManifests == {"otherPlatform", "noPlatforms"}

\* manifests whose entry holds a checksum that is there but not 64 lowercase
\* hex digits
MalformedManifests == {"upper", "short", "long"}

\* manifests whose entry holds an empty checksum or none
EmptyChecksumManifests == {"emptyChecksum", "noChecksum"}

PlatformNotFoundMessage == "Platform " \o platform.platform \o " not found in manifest"

\* the install stopped after the manifest request: nothing was downloaded,
\* compared, made executable, run or saved
StoppedAtManifest ==
    /\ pc = "done"
    /\ Len(failed) = 1
    /\ Len(Requests) = 2
    /\ Requests[2].arg = ManifestUrl(stableVersion)
    /\ download = NoFile
    /\ ~Compared
    /\ Ops \cap {"chmod", "exec", "unlink", "cache.saveCache"} = {}
    /\ ~saveReq.made

\* C16: when the manifest of the stable version has no entry for the platform
\* of the run, the install fails with the error that the platform is not in
\* the manifest, and the binary is never downloaded (nor made executable, run
\* or saved to the cache).
C16_NoManifestEntryStopsInstall ==
    manifestServed \in NoEntryManifests =>
        /\ StoppedAtManifest
        /\ failed = << PlatformNotFoundMessage >>

\* a manifest that lists another platform only was served to a linux-x64 run
C16_Witness ==
    /\ manifestServed = "otherPlatform"
    /\ platform.platform = "linux-x64"
    /\ pc = "done"

\* C17 as stated: when the manifest entry is there but its checksum is not 64
\* lowercase hex digits (empty, missing, uppercase, too short or too long),
\* getChecksum fails with the invalid-checksum-format error, not with the
\* platform-not-found error, before any comparison or binary download.
C17_Original ==
    manifestServed \in MalformedManifests \cup EmptyChecksumManifests =>
        /\ StoppedAtManifest
        /\ IsPrefix("Invalid checksum format: ", failed[1])

\* C17: when the manifest entry holds a checksum that is there but is not 64
\* lowercase hex digits (uppercase, too short or too long), getChecksum fails
\* with the invalid-checksum-format error; when the checksum is empty or
\* missing it fails with the platform-not-found error; either way before any
\* comparison and before the binary is downloaded.
C17_MalformedChecksumStopsInstall ==
    /\ manifestServed \in MalformedManifests =>
          /\ StoppedAtManifest
          /\ failed = << "Invalid checksum format: " \o ManifestChecksum >>
    /\ manifestServed \in EmptyChecksumManifests =>
          /\ StoppedAtManifest
          /\ failed = << PlatformNotFoundMessage >>

\* a manifest with an uppercase checksum was served and the run has ended
C17_Witness ==
    /\ manifestServed = "upper"
    /\ ManifestChecksum = UpperChecksum
    /\ pc = "done"

InstallerExitMessage == "The process '" \o DownloadPath \o "' failed with exit code 1"

\* installClaudeCode was entered and the run ended before it returned: one
\* of its steps threw
InstallThrew == /\ "installClaudeCode" \in Ops
                /\ pc = "done"
                /\ ~InstallCompleted

\* the messages of the errors the step at which installClaudeCode stopped
\* can throw, read off the last external call of the run
ThrownHere ==
    LET last == calls[Len(calls)]
    IN CASE last.op = "installClaudeCode" -> {getPlatform(host).err}
         [] last.op = "downloadTool" /\ last.arg = StablePointerUrl ->
              {NetworkError, "Failed to fetch stable version"}
         [] last.op = "downloadTool" /\ last.arg = ManifestUrl(stableVersion) ->
              IF manifestServed = "" THEN {NetworkError}
              ELSE {getChecksum([err |-> "", kind |-> manifestServed],
                                platform.platform).err}
         [] last.op = "downloadTool"
              /\ last.arg = BinaryUrl(stableVersion, platform.platform) ->
              {NetworkError}
         [] last.op = "unlink" -> {ChecksumMismatchMessage}
         [] last.op = "exec" -> {InstallerExitMessage}
         [] OTHER -> {}

\* the steps of run() after installClaudeCode
LaterSteps == {"cache.saveCache", "addPath", "setupGitCredentials", "writeFile",
               "addOrUpdateMarketplaces", "installPlugins"}

SuccessInfos == {"Claude Code installation completed",
                 "Claude Code setup completed successfully!",
                 "Plugin setup completed successfully!"}

\* C18: an error thrown by platform detection, by the resolution of the
\* stable version, by the manifest or checksum fetch, by the checksum
\* comparison or by the installer subprocess reaches run() unchanged: the run
\* is marked failed exactly once, with the message of that error; none of
\* saveCache, addToPath, verifyInstallation and the marketplace and plugin
\* steps runs afterwards, and the run reports no success.
C18_InstallErrorsFailTheRun ==
    /\ Len(failed) <= 1
    /\ failed # << >> => pc = "done"
    /\ InstallThrew =>
          /\ Len(failed) = 1
          /\ failed[1] \in ThrownHere \ {""}
          /\ Ops \cap LaterSteps = {}
          /\ ~saveReq.made
          /\ \A i \in Positions("exec") : calls[i].arg = DownloadPath
          /\ Range(infos) \cap SuccessInfos = {}
          /\ \A i \in DOMAIN outputs : outputs[i].name = "cache-hit"
    /\ "installClaudeCode" \in Ops /\ getPlatform(host).err # "" => InstallThrew
    /\ manifestServed # ""
         /\ getChecksum([err |-> "", kind |-> manifestServed], platform.platform).err # ""
         => InstallThrew
    /\ Compared /\ actualChecksum # expectedChecksum => InstallThrew

\* the installer subprocess exited with status 1 and the run has ended
C18_Witness ==
    /\ InstallThrew
    /\ InstallerStarted
    /\ failed = << InstallerExitMessage >>

\* a run for the literal version 1.0.0 on linux-x64 missed the cache,
\* downloaded a binary whose digest equals the manifest's checksum, installed
\* it and went past the save step
LiteralInstallDone ==
    /\ pc \in AfterSave
    /\ version = "1.0.0"
    /\ platform.platform = "linux-x64"
    /\ restoreReq.made /\ ~cacheHit
    /\ Compared /\ actualChecksum = expectedChecksum
    /\ InstallCompleted

\* what such a run has done with the download: chmod, then the installer,
\* then unlink
LiteralInstallSteps ==
    /\ ~download.exists
    /\ \E c \in DOMAIN calls :
          /\ calls[c] = Call("chmod", DownloadPath, << "0755" >>)
          /\ \E x \in (c + 1)..Len(calls) :
                /\ calls[x] = Call("exec", DownloadPath, << "install" >>)
                /\ \E u \in (x + 1)..Len(calls) :
                      calls[u] = Call("unlink", DownloadPath, << >>)

\* C19 as stated: such a run has made the binary executable, has run it with
\* exactly the argument "install", has removed the download, and has saved
\* the cache under "claude-code-linux-x64-1.0.0", a key holding the whole
\* platform id.
C19_Original ==
    LiteralInstallDone =>
        /\ LiteralInstallSteps
        /\ saveReq.made
        /\ saveReq.key = "claude-code-linux-x64-1.0.0"

\* C19: such a run has made the binary executable, has run it with exactly
\* the argument "install", has removed the download, and has saved the cache
\* under "claude-code-linux-1.0.0": the key holds the name of the operating
\* system only, not the architecture.
C19_LiteralInstallEndToEnd ==
    LiteralInstallDone =>
        /\ LiteralInstallSteps
        /\ saveReq.made
        /\ saveReq.paths = getCachePaths
        /\ saveReq.key = "claude-code-linux-1.0.0"

\* the run described has ended without a failure
C19_Witness ==
    /\ LiteralInstallDone
    /\ host.arch = "x64"
    /\ saveReq.made
    /\ pc = "done"
    /\ failed = << >>

\* C22: the path list handed to the external cache is exactly the two
\* install directories, the bin directory and then the data directory, in
\* restoreCache and in saveCache of the same run: what is saved is what is
\* restored.
C22_CachePathsAreBothDirectories ==
    /\ restoreReq.made =>
          restoreReq.paths = << "/home/runner/.local/bin",
                                "/home/runner/.local/share/claude" >>
    /\ saveReq.made => /\ restoreReq.made
                       /\ saveReq.paths = restoreReq.paths

\* a run has restored (a miss) and saved
C22_Witness ==
    /\ restoreReq.made
    /\ ~cacheHit
    /\ saveReq.made
    /\ Len(saveReq.paths) = 2

\* the external calls of this run from the entry of installClaudeCode on
InstallCalls ==
    LET at == Positions("installClaudeCode")
    IN IF at = {} THEN << >>
       ELSE SubSeq(calls, CHOOSE k \in at : TRUE, Len(calls))

\* the external calls of a successful installClaudeCode, in order
InstallOrder ==
    << Call("installClaudeCode", version, << >>),
       Call("downloadTool", StablePointerUrl, << >>),
       Call("downloadTool", ManifestUrl(stableVersion), << >>),
       Call("downloadTool", BinaryUrl(stableVersion, platform.platform), << >>),
       Call("chmod", DownloadPath, << "0755" >>),
       Call("exec", DownloadPath, << "install" >>),
       Call("unlink", DownloadPath, << >>) >>

ChecksumMismatched == Compared /\ actualChecksum # expectedChecksum

\* C23: a successful installClaudeCode takes its steps in this order, each
\* once and each finished before the next: platform detection, the stable
\* pointer, the manifest and its checksum, the binary download, the digest
\* comparison, chmod 0755, the installer subprocess, the removal of the
\* download; when it has returned the download is gone from the disk.
C23_InstallStepsInOrder ==
    /\ Cardinality(Positions("installClaudeCode")) <= 1
    /\ "installClaudeCode" \in Ops /\ ~ChecksumMismatched =>
          LET done == InstallCalls
              n == IF Len(done) < 7 THEN Len(done) ELSE 7
          IN /\ SubSeq(done, 1, n) = SubSeq(InstallOrder, 1, n)
             /\ n >= 2 => platform.platform # ""
             /\ n >= 3 => stableVersion # ""
             /\ n >= 4 => expectedChecksum # ""
             /\ n >= 5 => Compared /\ download.bytes # ""
             /\ InstallCompleted <=> n = 7
    /\ InstallCompleted => ~download.exists

\* installClaudeCode has returned
C23_Witness ==
    /\ InstallCompleted
    /\ Len(InstallCalls) >= 7
    /\ platform.platform = "linux-x64"

\* the calls of this run equal to c
CallsEqualTo(c) == {i \in DOMAIN calls : calls[i] = c}

\* the remote requests, the external cache calls, the installer subprocess
\* and the git commands that this run has issued more than once
Repeated ==
    {op \in {"cache.restoreCache", "cache.saveCache", "installClaudeCode"} :
        Cardinality(Positions(op)) > 1}
      \cup {i \in DOMAIN calls :
               /\ \/ calls[i].op = "downloadTool"
                  \/ calls[i].op = "exec" /\ calls[i].arg \in {DownloadPath, "git"}
               /\ Cardinality(CallsEqualTo(calls[i])) > 1}

\* the 'claude' commands of this run whose arguments start with these
ClaudeCommands(first) ==
    {i \in DOMAIN calls :
        /\ calls[i].op = "exec" /\ calls[i].arg = "claude"
        /\ Len(calls[i].args) >= Len(first)
        /\ SubSeq(calls[i].args, 1, Len(first)) = first}

\* the loops of addOrUpdateMarketplaces and installPlugins run a command once
\* for each entry of their lists, in order: one listing and one add or update
\* for each marketplace reached, one install for each plugin reached
OncePerEntry ==
    /\ Cardinality(ClaudeCommands(<< "plugin", "marketplace", "list" >>))
          <= Len(marketplaces)
    /\ Cardinality(ClaudeCommands(<< "plugin", "marketplace", "add" >>))
          + Cardinality(ClaudeCommands(<< "plugin", "marketplace", "update" >>))
          <= Len(marketplaces)
    /\ Cardinality(ClaudeCommands(<< "plugin", "install" >>)) <= Len(pluginList)

\* the external calls of the longest run, in order, those made once for each
\* marketplace and each plugin left out: a miss, an install, the credentials
LongestRun ==
    << "cache.restoreCache", "installClaudeCode", "downloadTool", "downloadTool",
       "downloadTool", "chmod", "exec", "unlink", "cache.saveCache", "addPath",
       "exec", "setupGitCredentials", "writeFile", "exec", "exec", "exec",
       "addOrUpdateMarketplaces", "installPlugins" >>

\* the most external calls this run can make: two commands for each
\* marketplace (list, then add or update) and one for each plugin
MostCalls == Len(LongestRun) + 2 * Len(marketplaces) + Len(pluginList)

NoRetry ==
    /\ Repeated = {}
    /\ OncePerEntry
    /\ Len(calls) <= MostCalls
    /\ Len(failed) <= 1
    /\ failed # << >> => pc = "done"

RunEnded == pc = "done" /\ Len(failed) \in {0, 1}

\* C24: nothing is retried: in one run each remote request (stable pointer,
\* manifest, binary), each external cache call (restore, save) and the
\* installer subprocess is issued at most once, the first failure ends the
\* step, and every run that has started ends, after a bounded number of
\* steps, either in success or in failure.
C24_NoRetryAndTermination ==
    /\ []NoRetry
    /\ (pc \notin {"idle", "done"}) ~> RunEnded

\* a run has ended in failure after a request failed, with every kind of
\* request issued at most once
C24_Witness ==
    /\ pc = "done"
    /\ failed = << NetworkError >>
    /\ Len(Requests) = 3

\* the first and the last character of s are not whitespace
IsTrimmed(s) ==
    /\ s # ""
    /\ SubSeq(s, 1, 1) \notin WhiteSpace
    /\ SubSeq(s, Len(s), Len(s)) \notin WhiteSpace

\* every character of s is whitespace
IsBlank(s) == \A k \in 1..Len(s) : SubSeq(s, k, k) \in WhiteSpace

\* C25: when the content fetched from the stable pointer is empty after
\* trimming whitespace, fetchStableVersion throws the version-resolution
\* error, and in that run no manifest is fetched, no binary is downloaded and
\* nothing is saved to the cache; otherwise it returns the trimmed content.
C25_EmptyStablePointerStopsInstall ==
    stableServed # UNDEFINED =>
        IF IsBlank(stableServed)
        THEN /\ pc = "done"
             /\ failed = << "Failed to fetch stable version" >>
             /\ stableVersion = ""
             /\ Len(Requests) = 1
             /\ download = NoFile
             /\ ~saveReq.made
             /\ "cache.saveCache" \notin Ops
        ELSE /\ IsTrimmed(stableVersion)
             /\ Contains(stableServed, stableVersion)
             /\ IsBlank(SubSeq(stableServed, Len(stableVersion) + 1, Len(stableServed)))

\* the stable pointer served whitespace only and the run has ended
C25_Witness ==
    /\ stableServed = " \f" \o VerticalTab \o "\n"
    /\ pc = "done"
    /\ Len(failed) = 1

\* the external cache matched a key other than the primary key of this run
FallbackMatched ==
    /\ restoreReq.made
    /\ matchedKey # ""
    /\ matchedKey # restoreReq.primaryKey

\* C27: restoreCache reports a hit whenever the external cache returns a
\* matched key, a key matched through a fallback prefix included; the run
\* then skips both the install and the save, so it leaves the primary key
\* without an entry, and what it restored may have been saved for another
\* version token or another day.
C27_FallbackMatchIsAHit ==
    restoreReq.made /\ matchedKey # "" =>
        /\ cacheHit
        /\ pc \in AfterSave
        /\ ~saveReq.made
        /\ \A i \in DOMAIN calls :
              /\ calls[i].op \notin {"installClaudeCode", "downloadTool", "cache.saveCache"}
              /\ calls[i].arg # DownloadPath
        /\ FallbackMatched =>
              /\ \E k \in DOMAIN restoreReq.restoreKeys :
                    IsPrefix(restoreReq.restoreKeys[k], matchedKey)
              /\ ExactMatch(cacheStore, restoreReq.primaryKey) = 0

\* a run asking for 1.0.0 on a cache that only holds an entry saved for
\* 'latest' ends successfully on that entry
C27_Witness ==
    /\ FallbackMatched
    /\ version = "1.0.0"
    /\ Contains(matchedKey, "latest")
    /\ pc = "done"
    /\ failed = << >>
    /\ cacheHit

\* the run ended on the error of the installer subprocess
InstallerFailed == failed = << InstallerExitMessage >>

\* the binary was written to the download path in this run
Downloaded == download.bytes # ""

\* C28: when the installer subprocess exits non-zero the error leaves
\* installClaudeCode without any cleanup: the verified download stays on the
\* disk, executable (0755), and the cache is not saved; the download is
\* removed only after a checksum mismatch and after a successful installer.
C28_InstallerFailureLeavesDownload ==
    /\ InstallerFailed =>
          /\ pc = "done"
          /\ InstallerStarted
          /\ download.exists
          /\ download.mode = "0755"
          /\ actualChecksum = expectedChecksum
          /\ "unlink" \notin Ops
          /\ "cache.saveCache" \notin Ops
          /\ ~saveReq.made
          /\ ~InstallCompleted
    /\ "unlink" \in Ops =>
          /\ ~download.exists
          /\ \/ ChecksumMismatched /\ ~InstallerStarted
             \/ InstallerStarted /\ InstallCompleted /\ ~ChecksumMismatched
    /\ Downloaded /\ ~download.exists => "unlink" \in Ops

\* the installer exited 1 on a download that passed the digest comparison
C28_Witness ==
    /\ InstallerFailed
    /\ download.exists
    /\ download.mode = "0755"
    /\ Compared
    /\ actualChecksum = expectedChecksum
    /\ cacheStore = << >>

-----------------------------------------------------------------------------
(* Claims on the key functions, over KeySpec *)

\* the logged calls of one key function
KeyCallsOf(op) == {i \in DOMAIN calls : calls[i].op = op}

\* the UTC day (counted from the base instant) a logged call was made on
DayOf(i) == calls[i].at \div HoursPerDay

IsDigits(s) == \A k \in 1..Len(s) : SubSeq(s, k, k) \in
                   {"0", "1", "2", "3", "4", "5", "6", "7", "8", "9"}

\* YYYY-MM-DD
IsDateFormat(s) ==
    /\ Len(s) = 10
    /\ IsDigits(SubSeq(s, 1, 4))
    /\ SubSeq(s, 5, 5) = "-"
    /\ IsDigits(SubSeq(s, 6, 7))
    /\ SubSeq(s, 8, 8) = "-"
    /\ IsDigits(SubSeq(s, 9, 10))

\* the calendar dates of the first days from the base instant, read off a
\* calendar
CalendarDates == << "2025-12-30", "2025-12-31", "2026-01-01", "2026-01-02" >>

\* C11: for every literal version token v (neither "latest" nor "stable"),
\* getCacheKey(v) is exactly "claude-code-{platform}-v", with no date in it,
\* and any two calls with the same v in one process return the same key
\* whatever the clock reads at each call.
C11_LiteralKeyHasNoDate ==
    \A i \in KeyCallsOf("getCacheKey") :
        calls[i].arg \in LiteralTokens =>
            /\ calls[i].args = << "claude-code-" \o host.os \o "-" \o calls[i].arg >>
            /\ \A j \in KeyCallsOf("getCacheKey") :
                   calls[j].arg = calls[i].arg => calls[j].args = calls[i].args

\* two calls with the same literal token on different UTC days
C11_Witness ==
    /\ Len(calls) = 2
    /\ calls[1].op = "getCacheKey" /\ calls[2].op = "getCacheKey"
    /\ calls[1].arg = "1.0.0" /\ calls[2].arg = "1.0.0"
    /\ DayOf(1) # DayOf(2)

\* C12: getCacheKey("latest") is "claude-code-{platform}-latest-YYYY-MM-DD"
\* with the UTC date of the call: calls on the same UTC day return the same
\* key and calls on different UTC days return different keys.
C12_LatestKeyRotatesDaily ==
    \A i \in KeyCallsOf("getCacheKey") :
        calls[i].arg = "latest" =>
            LET prefix == "claude-code-" \o host.os \o "-latest-"
                key == calls[i].args[1]
                date == SubSeq(key, Len(prefix) + 1, Len(key))
            IN /\ Len(calls[i].args) = 1
               /\ IsPrefix(prefix, key)
               /\ IsDateFormat(date)
               /\ DayOf(i) + 1 \in DOMAIN CalendarDates
                     => date = CalendarDates[DayOf(i) + 1]
               /\ \A j \in KeyCallsOf("getCacheKey") :
                      calls[j].arg = "latest" =>
                          (DayOf(i) = DayOf(j) <=> calls[j].args = calls[i].args)

\* two calls for "latest", one in 2025 and one in 2026
C12_Witness ==
    /\ Len(calls) = 2
    /\ calls[1].op = "getCacheKey" /\ calls[2].op = "getCacheKey"
    /\ calls[1].arg = "latest" /\ calls[2].arg = "latest"
    /\ DayOf(1) = 0
    /\ DayOf(2) = 2

\* C13: for a literal version token and for "latest", getRestoreKeys returns
\* exactly two entries, in order: "claude-code-{platform}-{token}-" and then
\* "claude-code-{platform}-"; the second is a prefix of the first.
C13_RestoreKeysNarrowThenWide ==
    \A i \in KeyCallsOf("getRestoreKeys") :
        calls[i].arg \in LiteralTokens \cup {"latest"} =>
            /\ Len(calls[i].args) = 2
            /\ calls[i].args[1] = "claude-code-" \o host.os \o "-" \o calls[i].arg \o "-"
            /\ calls[i].args[2] = "claude-code-" \o host.os \o "-"
            /\ IsPrefix(calls[i].args[2], calls[i].args[1])
            /\ calls[i].args[1] # calls[i].args[2]

\* restore keys asked for "latest" and for a literal token
C13_Witness ==
    /\ Len(calls) = 2
    /\ calls[1].op = "getRestoreKeys" /\ calls[1].arg = "latest"
    /\ calls[2].op = "getRestoreKeys" /\ calls[2].arg = "2.0.27"
    /\ host.os = "darwin"

\* C14: getRestoreKeys("stable"), while the stable pointer names version R,
\* returns exactly "claude-code-{platform}-R" and then
\* "claude-code-{platform}-" (the pointer is read once to learn R).
C14_StableRestoreKeysAreResolved ==
    \A i \in KeyCallsOf("getRestoreKeys") :
        calls[i].arg = "stable" =>
            calls[i].args = << "claude-code-" \o host.os \o "-" \o StableVersionAt(pointer),
                               "claude-code-" \o host.os \o "-" >>

\* C20: the cache keys follow the patterns of the README:
\* "claude-code-v2-{os}-latest-{date}" for "latest" and
\* "claude-code-v2-{os}-{version}" for a literal version.
C20_KeysCarryTheV2Prefix ==
    \A i \in KeyCallsOf("getCacheKey") :
        LET key == calls[i].args[1]
        IN /\ calls[i].arg = "latest" =>
                 LET prefix == "claude-code-v2-" \o host.os \o "-latest-"
                 IN /\ IsPrefix(prefix, key)
                    /\ IsDateFormat(SubSeq(key, Len(prefix) + 1, Len(key)))
           /\ calls[i].arg \in LiteralTokens =>
                 key = "claude-code-v2-" \o host.os \o "-" \o calls[i].arg

-----------------------------------------------------------------------------
(* Claims on getPlatform, over PlatformSpec *)

\* the strings matching ^(darwin|linux)-(x64|arm64)(-musl)?$
PlatformIdPattern ==
    {o \o "-" \o a \o m : o \in {"darwin", "linux"}, a \in {"x64", "arm64"},
                          m \in {"", "-musl"}}

HasMuslSuffix(id) == Len(id) >= 5 /\ SubSeq(id, Len(id) - 4, Len(id)) = "-musl"

StripMusl(id) == IF HasMuslSuffix(id) THEN SubSeq(id, 1, Len(id) - 5) ELSE id

UnsupportedPlatformMessages ==
    {"Windows is not supported"}
      \cup {"Unsupported OS: " \o o : o \in OsTypes}
      \cup {"Unsupported architecture: " \o a : a \in ArchTypes}

\* C21: for a host whose os is darwin or linux and whose arch is x64 or
\* arm64, getPlatform returns the platform id "{os}-{arch}", with "-musl"
\* appended iff the os is linux and a musl marker file exists, so the id
\* matches ^(darwin|linux)-(x64|arm64)(-musl)?$ and a darwin id never ends in
\* -musl; for win32, any other os or any other arch it throws an
\* unsupported-platform error and returns nothing.
C21_PlatformDetection ==
    pc = "detected" =>
        IF host.os \in {"darwin", "linux"} /\ host.arch \in {"x64", "arm64"}
        THEN /\ failed = << >>
             /\ platform.os = host.os
             /\ platform.arch = host.arch
             /\ platform.platform \in PlatformIdPattern
             /\ StripMusl(platform.platform) = host.os \o "-" \o host.arch
             /\ HasMuslSuffix(platform.platform) <=> (host.os = "linux" /\ host.musl)
        ELSE /\ platform = NoPlatform
             /\ Len(failed) = 1
             /\ failed[1] \in UnsupportedPlatformMessages

\* a darwin host on which a musl marker file exists was detected
C21_Witness ==
    /\ pc = "detected"
    /\ host = [os |-> "darwin", arch |-> "arm64", musl |-> TRUE]
    /\ platform.platform = "darwin-arm64"

-----------------------------------------------------------------------------
(* Claims on installPlugins, over PluginSpec *)

\* the names of PluginNames that validatePluginName must turn down: a path
\* traversal, a shell metacharacter and blanks, 513 characters
InvalidNames == {"../malicious", "plugin;rm -rf /", LongName}

\* index of the first invalid name of the parsed list (0 if every name is valid)
FirstInvalid ==
    LET bad == {k \in DOMAIN pluginList : pluginList[k] \in InvalidNames}
    IN IF bad = {} THEN 0 ELSE CHOOSE k \in bad : \A j \in bad : k <= j

InstallCall(name) == Call("exec", "claude", << "plugin", "install", name >>)

\* the install calls of the first n names of the list, one each, in order
InstallCallsFor(n) == [k \in 1..n |-> InstallCall(pluginList[k])]

ValidationErrors == {"path traversal detected", "exceeds maximum length",
                     "contains disallowed characters"}

\* the error thrown is the validation error of this name
IsValidationErrorFor(msg, name) ==
    /\ IsPrefix("Invalid plugin name \"" \o name \o "\": ", msg)
    /\ \E e \in ValidationErrors :
          IsPrefix(e, SubSeq(msg, Len(name) + 25, Len(msg)))

\* C26: installPlugins takes the parsed names in input order and validates
\* each one just before installing it: it throws on the first invalid name
\* without any CLI call for that name or a later one, while the names before
\* it have been installed with one CLI call each; when every name is valid it
\* makes exactly one install call per name and returns the names in input
\* order.
C26_PluginsValidatedBeforeInstall ==
    pc \in {"plugin", "threw", "returned"} =>
        LET first == FirstInvalid
            n == Len(installed)
        IN /\ installed = SubSeq(pluginList, 1, n)
           /\ first # 0 => n < first
           /\ \/ calls = InstallCallsFor(n)
              \/ n < Len(pluginList) /\ calls = InstallCallsFor(n + 1)
           /\ Len(calls) = n + 1 => pc = "threw" /\ n + 1 # first
           /\ pc = "threw" /\ Len(calls) = n =>
                 /\ n + 1 = first
                 /\ calls = InstallCallsFor(first - 1)
                 /\ Len(failed) = 1
                 /\ IsValidationErrorFor(failed[1], pluginList[first])
           /\ pc = "returned" =>
                 /\ first = 0
                 /\ failed = << >>
                 /\ installed = pluginList
                 /\ calls = InstallCallsFor(Len(pluginList))
           /\ pc = "plugin" => failed = << >>

\* the list of test/plugins.test.ts: a valid name, a path traversal, a valid
\* name; the first name has been installed and the second has been refused
C26_Witness ==
    /\ pluginList = << "valid-plugin", "../malicious", "plugin1@marketplace" >>
    /\ pc = "threw"
    /\ calls = << InstallCall("valid-plugin") >>
    /\ failed = << "Invalid plugin name \"../malicious\": path traversal detected" >>

-----------------------------------------------------------------------------
(* Claims on verifyInstallation, over VerifySpec *)

ExecutableNotFoundMessage ==
    "Failed to verify Claude Code installation: Error: Claude Code executable not found"

\* run() has come back from its call of verifyInstallation, or left through it
VerificationOver == "addPath" \in Ops /\ pc \in PluginPcs \cup {"done"}

\* the values run() has set for the output 'version'
VersionOutputValues ==
    {outputs[i].value : i \in {k \in DOMAIN outputs : outputs[k].name = "version"}}

VersionWarned ==
    \E i \in DOMAIN warnings : IsPrefix("Failed to get Claude Code version: ", warnings[i])

\* C29: verifyInstallation runs after a cache hit as well as after an
\* install. With the claude executable absent the run ends in failure and
\* does not fall back to installing; failing to obtain the version string is
\* not fatal by itself and gives the version "unknown".
C29_VerificationOnBothPaths ==
    /\ pc \in PluginPcs \cup {"done"} /\ failed = << >> => VerificationOver
    /\ VerificationOver =>
          IF ~installDir.executable
          THEN /\ pc = "done"
               /\ failed = << ExecutableNotFoundMessage >>
               /\ VersionOutputValues = {}
               /\ "Claude Code setup completed successfully!" \notin Range(infos)
               /\ calls[Len(calls)].op = "addPath"
               /\ cacheHit => "installClaudeCode" \notin Ops
               /\ Cardinality(Positions("installClaudeCode")) <= 1
          ELSE /\ ExecutableNotFoundMessage \notin Range(failed)
               /\ Cardinality(VersionOutputValues) = 1
               /\ "" \notin VersionOutputValues
               /\ VersionWarned => VersionOutputValues = {"unknown"}
               /\ "Claude Code setup completed successfully!" \in Range(infos)

\* a cache hit restored an install without the executable: the run failed at
\* the verification and nothing was installed
C29_Witness ==
    /\ cacheHit
    /\ matchedKey # ""
    /\ ~installDir.executable
    /\ pc = "done"
    /\ failed = << ExecutableNotFoundMessage >>
    /\ "installClaudeCode" \notin Ops

-----------------------------------------------------------------------------
(* Claims on the keys of one run, over TimedSpec *)

\* the UTC day of an instant, in days since the epoch of the clock
UtcDay(t) == t \div HoursPerDay

\* C30: saveCache computes the primary key again and does not take it over
\* from restoreCache: for a token other than 'latest' the key saved under is
\* the primary key of the restore of the same run; for 'latest' the two are
\* equal exactly when the UTC date did not advance between the two calls.
C30_SaveKeyIsRecomputed ==
    saveReq.made =>
        /\ restoreReq.made
        /\ restoreReq.at <= saveReq.at
        /\ version # "latest" => saveReq.key = restoreReq.primaryKey
        /\ version = "latest" =>
              (saveReq.key = restoreReq.primaryKey
                 <=> UtcDay(saveReq.at) = UtcDay(restoreReq.at))

\* a run for 'latest' restored before midnight UTC and saved after it, under
\* another key
C30_Witness ==
    /\ version = "latest"
    /\ saveReq.made
    /\ UtcDay(restoreReq.at) < UtcDay(saveReq.at)
    /\ saveReq.key # restoreReq.primaryKey
    /\ saveReq.err = ""

====
